---- MODULE Spec2Model ----
(***************************************************************************)
(* Project Atlas: the task-board state engine.                             *)
(*                                                                         *)
(* Two implementations of the engine live in the repository; a page loads  *)
(* one of them, and the variable script says which:                        *)
(*   AtlasApp      the class of the second script of                       *)
(*                 src/atlas-interactive.js: Store with safeJSON, title    *)
(*                 index, pub/sub and storage events, kanban board, modal  *)
(*                 forms; two tabs share one localStorage.                 *)
(*   ProjectAtlas  the class of src/unnamed/part_000: Store, id and title  *)
(*                 index, openTaskByIdOrName, document-level drag and      *)
(*                 drop, modal overlays removed by a timer.                *)
(*                                                                         *)
(* Strings that the code inspects (ids, titles, queries) are sequences of  *)
(* one-character strings, so that trim, toLowerCase and includes are       *)
(* computed as the code computes them.                                     *)
(***************************************************************************)
EXTENDS Integers, Sequences, FiniteSets, TLC

\* ------------------------------------------------------------------------
\* Bounds of the model
\* ------------------------------------------------------------------------
SeedLen == 1        \* how many of the seed tasks are kept
MaxCommits == 1     \* form submissions, deletes and committed drops per tab
MaxLinger == 1      \* closed overlays still mounted when a dialog is opened
MaxCards == 3       \* cards of a column that are clicked or dragged
MaxOpens == 3       \* dialogs opened while the listeners are followed

Tabs == {"A", "B"}

\* ------------------------------------------------------------------------
\* Strings
\* ------------------------------------------------------------------------
S_t1 == <<"t", "1">>
S_t2 == <<"t", "2">>
S_tx == <<"t", "x">>
S_Re == <<"R", "e">>
S_Ad == <<"A", "d">>
S_Or == <<"O", "r">>
S_Sc == <<"S", "c">>
S_t8 == <<"t", "8">>
S_t9 == <<"t", "9">>
S_t11 == <<"t", "1", "1">>
S_sp == <<" ">>

\* String.prototype.trim
RECURSIVE TrimLeft(_)
TrimLeft(s) == IF s # <<>> /\ Head(s) = " " THEN TrimLeft(Tail(s)) ELSE s

RECURSIVE TrimRight(_)
TrimRight(s) ==
  IF s # <<>> /\ s[Len(s)] = " " THEN TrimRight(SubSeq(s, 1, Len(s) - 1)) ELSE s

Trim(s) == TrimRight(TrimLeft(s))

\* String.prototype.toLowerCase, on the letters the model uses
ToLowerChar(c) ==
  CASE c = "R" -> "r" [] c = "A" -> "a" [] c = "O" -> "o" [] c = "S" -> "s"
    [] OTHER -> c

ToLowerCase(s) == [i \in DOMAIN s |-> ToLowerChar(s[i])]

\* String.prototype.includes
Includes(s, sub) ==
  \E i \in 0..(Len(s) - Len(sub)) : SubSeq(s, i + 1, i + Len(sub)) = sub

\* ------------------------------------------------------------------------
\* Entities
\* ------------------------------------------------------------------------
Statuses == {"someday", "planning", "ready", "in-progress", "blocked", "done"}
StatusOrder == <<"someday", "planning", "ready", "in-progress", "blocked", "done">>

\* updatedAt is a time in clock ticks; 0 stands for a time before the
\* first page was opened
Task(id, title, status, project, priority) ==
  [id |-> id, title |-> title, status |-> status, project |-> project,
   priority |-> priority, updatedAt |-> 0]

\* The seed tasks of AtlasApp.loadData; titles are abbreviated to their
\* first two letters ("Replace attic insulation" is "Re").
SeedTasksAll ==
  << Task(S_t1, S_Re, "someday", "basement", "low"),
     Task(S_t2, S_Ad, "someday", "bathroom", "low"),
     Task(<<"t", "3">>, S_Or, "planning", "kitchen", "medium") >>

SeedTasks == SubSeq(SeedTasksAll, 1, SeedLen)

\* SEED_TASKS of ProjectAtlas ("Schedule plumbing inspection" is "Sc")
SEED_TASKS_ALL ==
  << Task(S_t9, S_Sc, "blocked", "bathroom", "high"),
     Task(S_t11, S_Or, "planning", "bathroom", "medium"),
     Task(S_t8, S_Re, "planning", "kitchen", "low") >>

SEED_TASKS == SubSeq(SEED_TASKS_ALL, 1, SeedLen)

SEED_PROJECTS == << [id |-> "kitchen"], [id |-> "basement"], [id |-> "bathroom"] >>

SeedProjects == << [id |-> "kitchen"], [id |-> "basement"], [id |-> "bathroom"] >>
SeedDocuments == << [id |-> "doc-1"], [id |-> "doc-2"], [id |-> "doc-3"], [id |-> "doc-4"] >>
SeedEvents == << [id |-> "e1"], [id |-> "e2"], [id |-> "e3"], [id |-> "e4"] >>

\* ------------------------------------------------------------------------
\* JavaScript values held by a collection field, and localStorage items
\* ------------------------------------------------------------------------
Arr(s) == [t |-> "array", items |-> s]
JNull == [t |-> "null", items |-> <<>>]
JObject == [t |-> "object", items |-> <<>>]
JNumber == [t |-> "number", items |-> <<>>]
JString == [t |-> "string", items |-> <<>>]       \* a non-empty string
JEmptyString == [t |-> "emptystring", items |-> <<>>]

IsArray(v) == v.t = "array"

\* reading v.length throws a TypeError when v is null
LengthThrows(v) == v.t = "null"

\* !v.length: the length is 0 (empty array, empty string) or undefined
\* (an object or a number has no length property)
NoLength(v) ==
  CASE v.t = "array" -> Len(v.items) = 0
    [] v.t = "string" -> FALSE
    [] v.t = "emptystring" -> TRUE
    [] OTHER -> TRUE

\* what localStorage.getItem returns: null (absent) or a string
Absent == [k |-> "absent", v |-> JNull]
EmptyText == [k |-> "empty", v |-> JNull]
Malformed == [k |-> "malformed", v |-> JNull]
JSONstringify(v) == [k |-> "json", v |-> v]

Keys == {"atlas_tasks", "atlas_projects", "atlas_documents", "atlas_events"}

\* safeJSON.get: the parsed item, or the fallback when the item is absent,
\* the empty string, or not valid JSON
SafeJSONget(st, key, fallback) ==
  LET raw == st[key] IN IF raw.k = "json" THEN raw.v ELSE fallback

\* ------------------------------------------------------------------------
\* AtlasApp: one instance per tab, with the part of the page it drives
\* ------------------------------------------------------------------------
VARIABLES
  script,     \* the script the pages load: "AtlasApp" or "ProjectAtlas"
  storage,    \* localStorage: the four collection items
  ping,       \* localStorage item __atlas_ping__: the Date.now() of the
              \* last notify, counted in clock ticks (-1: absent)
  app,        \* per tab: the AtlasApp instance, its subscribers and its page
  pending,    \* per tab: storage events queued for the tab's listener
  commits,    \* per tab: form submissions and deletes so far
  hist,       \* history: the last load or commit (no program state)
  listeners   \* per tab: the listeners createModal has added and nothing
              \* has removed since.  No handler reads them; they are
              \* followed where the dialogs are studied (ModalSpec).

vars == <<script, storage, ping, app, pending, commits, hist, listeners>>

\* esc: keydown listeners on the document that close on Escape
\* (ProjectAtlas); backdrop: click listeners on #atlas-modal-overlay, and
\* trap: the focus-trap keydown listener on it (AtlasApp)
NoListeners == [esc |-> 0, backdrop |-> 0, trap |-> FALSE]

NoModal == [kind |-> "none", taskId |-> <<>>, status |-> "planning"]
NoToast == [kind |-> "none", taskId |-> <<>>, status |-> "none"]
EmptyBoard == [s \in Statuses |-> <<>>]

\* the fields the constructor sets before it calls loadData, in a page
\* whose script has just been evaluated (no subscriber yet)
NewApp ==
  [phase |-> "running",
   tasks |-> Arr(<<>>), projects |-> Arr(<<>>),
   documents |-> Arr(<<>>), events |-> Arr(<<>>),
   titleIndex |-> <<>>,
   onChange |-> FALSE,
   bound |-> FALSE,
   subscribers |-> {},
   initTimer |-> FALSE,
   rendered |-> FALSE,
   currentFilter |-> "all", currentPriorityFilter |-> "all",
   board |-> EmptyBoard,
   counts |-> [s \in Statuses |-> 0],
   drag |-> "none", over |-> "none",
   modal |-> NoModal,
   toast |-> NoToast]

ClosedApp == [NewApp EXCEPT !.phase = "closed"]

\* a saveData that keeps the persisted tasks the memory does not hold
SaveItems_Merge(w) ==
  LET old == w.storage["atlas_tasks"]
      kept == IF old.k = "json" /\ IsArray(old.v) /\ IsArray(w.me.tasks)
              THEN SelectSeq(old.v.items, LAMBDA t :
                     \A i \in DOMAIN w.me.tasks.items : w.me.tasks.items[i].id # t.id)
              ELSE <<>>
      st == [k \in Keys |->
               CASE k = "atlas_tasks" ->
                      JSONstringify(IF IsArray(w.me.tasks)
                                    THEN Arr(w.me.tasks.items \o kept) ELSE w.me.tasks)
                 [] k = "atlas_projects" -> JSONstringify(w.me.projects)
                 [] k = "atlas_documents" -> JSONstringify(w.me.documents)
                 [] OTHER -> JSONstringify(w.me.events)]
  IN [w EXCEPT !.storage = st,
               !.fired = @ + Cardinality({k \in Keys : st[k] # w.storage[k]})]

\* saveData writes the four collections; an item whose value changes
\* raises one storage event in every other tab
SaveItems(w) ==
  LET st == [k \in Keys |->
               CASE k = "atlas_tasks" -> JSONstringify(w.me.tasks)
                 [] k = "atlas_projects" -> JSONstringify(w.me.projects)
                 [] k = "atlas_documents" -> JSONstringify(w.me.documents)
                 [] OTHER -> JSONstringify(w.me.events)]
  IN [w EXCEPT !.storage = st,
               !.fired = @ + Cardinality({k \in Keys : st[k] # w.storage[k]})]

Undefined == <<"undefined">>

\* a reindexTasks that leaves the index as it is
ReindexTasks_Stale(me) == me

\* reindexTasks: title -> list of the ids of the tasks with that title, in
\* collection order.  Iterating a string visits its characters, whose
\* title and id are undefined.
ReindexTasks(me) ==
  LET ts == me.tasks.items
      titles == {ts[i].title : i \in DOMAIN ts}
      IdsOf(k) ==
        LET sel == SelectSeq(ts, LAMBDA t : t.title = k)
        IN [i \in DOMAIN sel |-> sel[i].id]
  IN IF me.tasks.t = "string"
     THEN [me EXCEPT !.titleIndex =
             [k \in {Undefined} |-> <<Undefined, Undefined, Undefined>>]]
     ELSE [me EXCEPT !.titleIndex = [k \in titles |-> IdsOf(k)]]

\* a getFilteredTasks that is content with one of the two matches
GetFilteredTasks_Either(me) ==
  SelectSeq(me.tasks.items, LAMBDA t :
    \/ (me.currentFilter = "all" \/ t.project = me.currentFilter)
    \/ (me.currentPriorityFilter = "all" \/ t.priority = me.currentPriorityFilter))

\* getFilteredTasks
GetFilteredTasks(me) ==
  SelectSeq(me.tasks.items, LAMBDA t :
    /\ (me.currentFilter = "all" \/ t.project = me.currentFilter)
    /\ (me.currentPriorityFilter = "all" \/ t.priority = me.currentPriorityFilter))

\* a card on the board: the task id it carries, the "dragging" class and
\* flag, whether its dragstart/dragend/click listeners are attached, and
\* whether it is the element of the browser's drag gesture
Card(id, wired) ==
  [taskId |-> id, dragging |-> FALSE, wired |-> wired, grabbed |-> FALSE]

\* createTaskCard: a card with its three listeners
CreateTaskCard(task) == Card(task.id, TRUE)

\* cloneNode(true) copies attributes and classes, never listeners added
\* with addEventListener; the clone is not the element being dragged
CloneNode(card) == [card EXCEPT !.wired = FALSE, !.grabbed = FALSE]

\* a setupKanbanDragDrop that leaves the columns in place, so that the
\* cards of the page are the clones with the listeners
SetupKanbanDragDrop_CardsOnly(board) ==
  [s \in Statuses |->
     [i \in DOMAIN board[s] |-> [CloneNode(board[s][i]) EXCEPT !.wired = TRUE]]]

\* setupKanbanDragDrop: every card is replaced by a clone that gets the
\* listeners; then every column is replaced by a deep clone of itself,
\* so the cards that end up in the page are clones of the clones
SetupKanbanDragDrop(board) ==
  LET cards == [s \in Statuses |->
                  [i \in DOMAIN board[s] |->
                     [CloneNode(board[s][i]) EXCEPT !.wired = TRUE]]]
  IN [s \in Statuses |-> [i \in DOMAIN cards[s] |-> CloneNode(cards[s][i])]]

\* a count that takes every task of the status, shown or not
CountOf_AllTasks(me, s) == Len(SelectSeq(me.tasks.items, LAMBDA t : t.status = s))

\* the number a badge gets: getFilteredTasks().filter(t => t.status === s).length
CountOf(me, s) == Len(SelectSeq(GetFilteredTasks(me), LAMBDA t : t.status = s))

\* a renderKanban that does not empty the columns before it adds the cards
RenderKanban_Append(me) ==
  LET col(s) == LET ts == SelectSeq(GetFilteredTasks(me), LAMBDA t : t.status = s)
                IN me.board[s] \o [i \in DOMAIN ts |-> CreateTaskCard(ts[i])]
  IN [me EXCEPT !.board = SetupKanbanDragDrop([s \in Statuses |-> col(s)]),
                !.counts = [s \in Statuses |-> CountOf(me, s)],
                !.rendered = TRUE]

\* renderKanban: each column gets the cards of the filtered tasks with its
\* status and its badge their number; then setupKanbanDragDrop
RenderKanban(me) ==
  LET col(s) == LET ts == SelectSeq(GetFilteredTasks(me), LAMBDA t : t.status = s)
                IN [i \in DOMAIN ts |-> CreateTaskCard(ts[i])]
  IN [me EXCEPT !.board = SetupKanbanDragDrop([s \in Statuses |-> col(s)]),
                !.counts = [s \in Statuses |-> CountOf(me, s)],
                !.rendered = TRUE]

\* updateColumnCounts
UpdateColumnCounts(me) == [me EXCEPT !.counts = [s \in Statuses |-> CountOf(me, s)]]

\* the listener routeInit registers: reindexTasks, then renderKanban;
\* notify catches what a subscriber throws (tasks.filter on a non-array)
RefreshSubscriber(me) ==
  IF IsArray(me.tasks) THEN RenderKanban(ReindexTasks(me)) ELSE ReindexTasks(me)

RunSubscribers(me) == IF "refresh" \in me.subscribers THEN RefreshSubscriber(me) ELSE me

\* notify: every local subscriber, then the ping item is set to
\* String(Date.now()).  w.tick: the clock has advanced since the item was
\* last written; it never runs backwards.
Notify(w) ==
  LET changed == w.tick \/ w.ping = -1
  IN [w EXCEPT !.me = RunSubscribers(w.me),
               !.ping = IF changed THEN @ + 1 ELSE @,
               !.fired = @ + (IF changed THEN 1 ELSE 0)]

\* saveData(emit)
SaveData(w, emit) == IF emit THEN Notify(SaveItems(w)) ELSE SaveItems(w)

\* loadData: the four reads, the four seed conditions in the order of the
\* code (projects, tasks, documents, events), then saveData(false).
\* threw: reading .length of null raised a TypeError; the fields keep what
\* was assigned before it and nothing is saved.
SeedIfNoLength(v, seed) == IF NoLength(v) THEN Arr(seed) ELSE v

\* loadData up to its saveData(false): the reads and the seeding
LoadReads(w) ==
  LET t0 == SafeJSONget(w.storage, "atlas_tasks", Arr(<<>>))
      p0 == SafeJSONget(w.storage, "atlas_projects", Arr(<<>>))
      d0 == SafeJSONget(w.storage, "atlas_documents", Arr(<<>>))
      e0 == SafeJSONget(w.storage, "atlas_events", Arr(<<>>))
      m0 == [w.me EXCEPT !.tasks = t0, !.projects = p0, !.documents = d0, !.events = e0]
      m1 == [m0 EXCEPT !.projects = SeedIfNoLength(p0, SeedProjects)]
      m2 == [m1 EXCEPT !.tasks = SeedIfNoLength(t0, SeedTasks)]
      m3 == [m2 EXCEPT !.documents = SeedIfNoLength(d0, SeedDocuments)]
      m4 == [m3 EXCEPT !.events = SeedIfNoLength(e0, SeedEvents)]
  IN CASE LengthThrows(p0) -> [w EXCEPT !.me = m0, !.threw = TRUE]
       [] LengthThrows(t0) -> [w EXCEPT !.me = m1, !.threw = TRUE]
       [] LengthThrows(d0) -> [w EXCEPT !.me = m2, !.threw = TRUE]
       [] LengthThrows(e0) -> [w EXCEPT !.me = m3, !.threw = TRUE]
       [] OTHER -> [w EXCEPT !.me = m4]

LoadData(w) ==
  LET r == LoadReads(w)
  IN IF r.threw THEN r ELSE SaveData(r, FALSE)

\* routeInit on the kanban page: initKanban defers the first render with
\* setTimeout, then this.onChange(...) registers the refresh listener;
\* calling it while the field is still undefined raises a TypeError
RouteInit(w) ==
  LET m == [w.me EXCEPT !.initTimer = TRUE]
  IN IF m.onChange
     THEN [w EXCEPT !.me = [m EXCEPT !.subscribers = @ \cup {"refresh"}]]
     ELSE [w EXCEPT !.me = m, !.threw = TRUE]

\* the constructor and the bootstrap statement window.atlas = new AtlasApp()
\* w1: the page when loadData has returned or thrown
AfterLoadData(w1) ==
  LET w2 == RouteInit([w1 EXCEPT !.me = ReindexTasks(w1.me)])
  IN IF w1.threw THEN [w1 EXCEPT !.me.phase = "crashed"]
     ELSE IF w2.threw THEN w2
     ELSE [w2 EXCEPT !.me.onChange = TRUE, !.me.bound = TRUE]

Constructor(w) == AfterLoadData(LoadData([w EXCEPT !.me = NewApp]))

\* ------------------------------------------------------------------------
\* Modal and toast
\* ------------------------------------------------------------------------
\* closeModal
CloseModalOp(me) == [me EXCEPT !.modal = NoModal]

\* createModal: closeModal, then the new dialog is mounted
CreateModal(me, kind, taskId, status) ==
  [CloseModalOp(me) EXCEPT !.modal = [kind |-> kind, taskId |-> taskId, status |-> status]]

Toast(me, kind, taskId, status) ==
  [me EXCEPT !.toast = [kind |-> kind, taskId |-> taskId, status |-> status]]

\* Array.prototype.find(x => x.id === id): index of the first match, 0 if none
FindIndex(ts, id) ==
  IF \E i \in DOMAIN ts : ts[i].id = id
  THEN CHOOSE i \in DOMAIN ts : ts[i].id = id /\ \A j \in 1..(i - 1) : ts[j].id # id
  ELSE 0

\* showStatusChangeNotification
ShowStatusChangeNotification(me, taskId, newStatus) ==
  IF FindIndex(me.tasks.items, taskId) = 0 THEN me
  ELSE Toast(me, "moved", taskId, newStatus)

\* updateTaskStatus: the first task with the id gets the status, then
\* saveData(), reindexTasks(), updateColumnCounts() and the toast; the
\* board is not rendered again
UpdateTaskStatus(w, taskId, newStatus) ==
  LET i == FindIndex(w.me.tasks.items, taskId)
      w1 == SaveData([w EXCEPT !.me.tasks.items[i].status = newStatus], TRUE)
  IN IF i = 0 THEN w
     ELSE [w1 EXCEPT !.me = ShowStatusChangeNotification(
                               UpdateColumnCounts(ReindexTasks(w1.me)), taskId, newStatus)]

\* ------------------------------------------------------------------------
\* Actions of AtlasApp
\* ------------------------------------------------------------------------
\* history of the last load or commit: what it was, in which tab, on which
\* task with which status, which other tabs were open then and have not
\* been reloaded since, the tab whose load found localStorage empty, and
\* whether the handler put the question of confirm() to the user
NoHist ==
  [op |-> "none", tab |-> "A", taskId |-> <<>>, status |-> "none",
   open |-> {}, seededBy |-> "none", asked |-> FALSE]

OthersOpen(tab) == {o \in Tabs \ {tab} : app[o].phase = "running"}

Did(op, tab, taskId, status) ==
  hist' = [op |-> op, tab |-> tab, taskId |-> taskId, status |-> status,
           open |-> OthersOpen(tab), seededBy |-> "none", asked |-> FALSE]

\* the same for a handler that ends or goes on after confirm()
DidAsked(op, tab, taskId) ==
  hist' = [op |-> op, tab |-> tab, taskId |-> taskId, status |-> "none",
           open |-> OthersOpen(tab), seededBy |-> "none", asked |-> TRUE]

World(tab, tick) ==
  [me |-> app[tab], storage |-> storage, ping |-> ping, tick |-> tick,
   fired |-> 0, threw |-> FALSE, reload |-> FALSE]

\* the outcome of a handler of tab: its instance and page, localStorage,
\* and one queued storage event per changed item in every other open tab
Outcome(tab, w) ==
  /\ app' = [app EXCEPT ![tab] = w.me]
  /\ storage' = w.storage
  /\ ping' = w.ping
  /\ pending' = [o \in Tabs |->
                   IF o = tab THEN (IF w.reload THEN 0 ELSE pending[o])
                   ELSE IF app[o].phase # "closed" THEN pending[o] + w.fired
                   ELSE pending[o]]
  /\ UNCHANGED <<listeners, script>>

\* The user works in one tab at a time and finishes a dialog or a drag
\* before turning to another tab; the timer of initKanban (0 ms) has run
\* before the first click, and a queued storage event is delivered before
\* the next click.
Idle(tab) == app[tab].modal.kind = "none" /\ app[tab].drag = "none"

\* The handlers of a page whose collections are not arrays throw before
\* they change anything (tasks.find, tasks.filter, projects.map).
Usable(tab) ==
  /\ script = "AtlasApp"
  /\ app[tab].phase = "running"
  /\ ~app[tab].initTimer
  /\ IsArray(app[tab].tasks)
  /\ IsArray(app[tab].projects)
  /\ \A o \in Tabs \ {tab} : Idle(o)
  /\ \A o \in Tabs : pending[o] = 0

\* the page is loaded or reloaded in a tab: the script is evaluated and
\* the constructor runs; storage events queued for the old page are gone
Open(tab) ==
  /\ script = "AtlasApp"
  /\ tab = "B" => app["A"].phase # "closed"
  /\ \A o \in Tabs : Idle(o)
  /\ Outcome(tab, Constructor([World(tab, FALSE) EXCEPT !.reload = TRUE]))
  /\ hist' = [op |-> "open", tab |-> tab, taskId |-> <<>>, status |-> "none",
              open |-> hist.open \ {tab},
              seededBy |-> IF \A k \in Keys : storage[k] = Absent THEN tab
                           ELSE hist.seededBy,
              asked |-> FALSE]
  /\ UNCHANGED <<commits>>

\* the timer of initKanban: the first renderKanban
InitKanbanTimer(tab) ==
  /\ script = "AtlasApp"
  /\ app[tab].phase = "running"
  /\ app[tab].initTimer
  /\ app' = [app EXCEPT ![tab] =
               [(IF IsArray(@.tasks) THEN RenderKanban(@) ELSE @) EXCEPT !.initTimer = FALSE]]
  /\ UNCHANGED <<listeners, script, storage, ping, pending, commits, hist>>

\* a storage listener that calls notify() after the subscribers
StorageEvent_Echo(tab) ==
  /\ script = "AtlasApp"
  /\ app[tab].phase # "closed"
  /\ pending[tab] > 0
  /\ app' = [app EXCEPT ![tab] = RunSubscribers(@)]
  /\ ping' = ping + 1
  /\ pending' = [o \in Tabs |-> IF o = tab THEN pending[o] - 1
                                ELSE IF app[o].phase # "closed" THEN pending[o] + 1
                                ELSE pending[o]]
  /\ UNCHANGED <<listeners, script, storage, commits, hist>>

\* the window 'storage' listener: every key the tabs write is in its list
StorageEvent(tab) ==
  /\ script = "AtlasApp"
  /\ app[tab].phase # "closed"
  /\ pending[tab] > 0
  /\ app' = [app EXCEPT ![tab] = RunSubscribers(@)]
  /\ pending' = [pending EXCEPT ![tab] = @ - 1]
  /\ UNCHANGED <<listeners, script, storage, ping, commits, hist>>

\* ---- forms -------------------------------------------------------------
\* what the user can type or select in the forms
FormTitles == {S_Or, S_sp}
FormProjects == {"kitchen"}
FormPriorities == {"high"}
MoveStatuses == {"blocked", "done"}
EditStatuses == {"done"}
AddStatuses == {"planning"}
NewIds == {S_tx}
\* whether the clock has advanced between two notifies: the commits of a
\* user are more than a clock tick apart
Ticks == {TRUE}
\* the columns the pointer is taken over, and the positions considered
DropColumns == {"blocked"}
\* how far the pointer travels on a card between button down and the click
ClickTravels == {3, 6}
\* ids the open-task entry points can be called with (a card's
\* data-task-id, or any string through window.openTask)
OpenIds == {S_t1, S_tx}
\* titles the legacy inline handlers pass to window.showTaskDetail
TaskNames == {S_Or, <<"o", "r">>, S_tx}

IdsOfTasks(ts) == {ts[i].id : i \in DOMAIN ts}
ProjectIds(me) == {me.projects.items[i].id : i \in DOMAIN me.projects.items}

\* an add-task button (after setupAddTaskButtons) or window.showNewTaskModal
ShowAddTaskModal(tab, status) ==
  /\ Usable(tab) /\ app[tab].drag = "none"
  /\ status # "planning" => app[tab].rendered
  /\ app[tab].modal.kind = "none"
  /\ app' = [app EXCEPT ![tab] = CreateModal(@, "add", <<>>, status)]
  /\ UNCHANGED <<listeners, script, storage, ping, pending, commits, hist>>

\* submit of the add-task form; the required title input is not empty
SubmitAddTask(tab, id, title, project, priority, tick) ==
  LET me == app[tab]
      newTask == Task(id, title, me.modal.status, project, priority)
      w1 == SaveData([World(tab, tick) EXCEPT !.me.tasks.items = Append(@, newTask)], TRUE)
      m2 == CloseModalOp(RenderKanban(ReindexTasks(w1.me)))
  IN /\ Usable(tab) /\ me.drag = "none"
     /\ me.modal.kind = "add"
     /\ commits[tab] < MaxCommits
     /\ title # <<>>
     /\ id \notin IdsOfTasks(me.tasks.items)
     /\ project \in ProjectIds(me)
     /\ Outcome(tab, [w1 EXCEPT !.me = ShowStatusChangeNotification(m2, id, newTask.status)])
     /\ commits' = [commits EXCEPT ![tab] = @ + 1]
     /\ Did("add", tab, id, newTask.status)

\* openTaskById: the click delegate on [data-task-id], window.openTask
OpenTaskById(tab, id) ==
  LET me == app[tab] IN
  /\ Usable(tab) /\ me.drag = "none"
  /\ me.modal.kind = "none"
  /\ app' = [app EXCEPT ![tab] =
               IF FindIndex(me.tasks.items, id) = 0
               THEN Toast(me, "notfound", <<>>, "none")
               ELSE CreateModal(me, "detail", id, "none")]
  /\ UNCHANGED <<listeners, script, storage, ping, pending, commits, hist>>

\* a click on the card at position i of column s, the pointer having
\* travelled d since the button went down: the click delegate of the
\* document calls openTaskById with the card's data-task-id, then the
\* card's own listener, if it has one and the card is not flagged as
\* dragging, calls it again
OpenTaskOp(me, id) ==
  IF FindIndex(me.tasks.items, id) = 0
  THEN Toast(me, "notfound", <<>>, "none")
  ELSE CreateModal(me, "detail", id, "none")

CardClickOp(me, card, d) ==
  LET delegated == OpenTaskOp(me, card.taskId)
  IN IF card.wired /\ ~card.dragging THEN OpenTaskOp(delegated, card.taskId)
     ELSE delegated

CardClick(tab, s, i, d) ==
  LET me == app[tab] IN
  /\ Usable(tab) /\ me.rendered /\ me.drag = "none"
  /\ me.modal.kind = "none"
  /\ i \in DOMAIN me.board[s]
  /\ app' = [app EXCEPT ![tab] = CardClickOp(me, me.board[s][i], d)]
  /\ UNCHANGED <<listeners, script, storage, ping, pending, commits, hist>>

\* window.showTaskDetail(taskName): the first id the title index has for
\* the title as it is given, or the toast
ShowTaskDetail(tab, taskName) ==
  LET me == app[tab]
      ids == IF taskName \in DOMAIN me.titleIndex THEN me.titleIndex[taskName] ELSE <<>>
  IN /\ Usable(tab) /\ me.drag = "none"
     /\ me.modal.kind = "none"
     /\ app' = [app EXCEPT ![tab] =
                  IF ids = <<>> \/ FindIndex(me.tasks.items, ids[1]) = 0
                  THEN Toast(me, "notfound", <<>>, "none")
                  ELSE CreateModal(me, "detail", ids[1], "none")]
     /\ UNCHANGED <<listeners, script, storage, ping, pending, commits, hist>>

\* the Move... button of the detail modal: moveTask
MoveTask(tab) ==
  LET me == app[tab] IN
  /\ Usable(tab) /\ me.drag = "none"
  /\ me.modal.kind = "detail"
  /\ FindIndex(me.tasks.items, me.modal.taskId) # 0
  /\ app' = [app EXCEPT ![tab] = CreateModal(me, "move", me.modal.taskId, "none")]
  /\ UNCHANGED <<listeners, script, storage, ping, pending, commits, hist>>

\* submit of the move form: updateTaskStatus, closeModal
SubmitMove(tab, newStatus, tick) ==
  LET me == app[tab]
      w1 == UpdateTaskStatus(World(tab, tick), me.modal.taskId, newStatus)
  IN /\ Usable(tab) /\ me.drag = "none"
     /\ me.modal.kind = "move"
     /\ commits[tab] < MaxCommits
     /\ Outcome(tab, [w1 EXCEPT !.me = CloseModalOp(@)])
     /\ commits' = [commits EXCEPT ![tab] = @ + 1]
     /\ Did(IF FindIndex(me.tasks.items, me.modal.taskId) = 0 THEN "none" ELSE "move", tab, me.modal.taskId, newStatus)

\* the Edit button of the detail modal: editTaskModal
EditTaskModal(tab) ==
  LET me == app[tab] IN
  /\ Usable(tab) /\ me.drag = "none"
  /\ me.modal.kind = "detail"
  /\ FindIndex(me.tasks.items, me.modal.taskId) # 0
  /\ app' = [app EXCEPT ![tab] = CreateModal(me, "edit", me.modal.taskId, "none")]
  /\ UNCHANGED <<listeners, script, storage, ping, pending, commits, hist>>

\* submit of the edit form: the fields are assigned to the task, then an
\* empty trimmed title returns before saveData
SubmitEdit(tab, title, project, status, priority, tick) ==
  LET me == app[tab]
      i == FindIndex(me.tasks.items, me.modal.taskId)
      t == [me.tasks.items[i] EXCEPT !.title = Trim(title), !.project = project,
                                     !.status = status, !.priority = priority]
      w0 == [World(tab, tick) EXCEPT !.me.tasks.items[i] = t]
      w1 == SaveData(w0, TRUE)
      m2 == CloseModalOp(ReindexTasks(w1.me))
  IN /\ Usable(tab) /\ me.drag = "none"
     /\ me.modal.kind = "edit"
     /\ commits[tab] < MaxCommits
     /\ title # <<>>
     /\ project \in ProjectIds(me)
     /\ status \in EditStatuses \cup {me.tasks.items[i].status}
     /\ IF t.title = <<>>
        THEN Outcome(tab, [w0 EXCEPT !.me = Toast(@, "titleRequired", <<>>, "none")])
        ELSE Outcome(tab, [w1 EXCEPT !.me = Toast(RenderKanban(m2), "updated", <<>>, "none")])
     /\ commits' = [commits EXCEPT ![tab] = @ + 1]
     /\ Did(IF t.title = <<>> THEN "rejected" ELSE "edit", tab, me.modal.taskId, status)

\* the Delete button of the edit form
DeleteClick(tab, tick) ==
  LET me == app[tab]
      id == me.modal.taskId
      w1 == SaveData([World(tab, tick) EXCEPT !.me.tasks.items =
                         SelectSeq(@, LAMBDA x : x.id # id)], TRUE)
      m2 == RenderKanban(CloseModalOp(ReindexTasks(w1.me)))
  IN /\ Usable(tab) /\ me.drag = "none"
     /\ me.modal.kind = "edit"
     /\ commits[tab] < MaxCommits
     /\ Outcome(tab, [w1 EXCEPT !.me = Toast(m2, "deleted", <<>>, "none")])
     /\ commits' = [commits EXCEPT ![tab] = @ + 1]
     /\ Did("delete", tab, id, "none")

\* the close control, a backdrop click or Escape
CloseModal(tab) ==
  /\ script = "AtlasApp"
  /\ app[tab].phase = "running" /\ app[tab].drag = "none"
  /\ app[tab].modal.kind # "none"
  /\ app' = [app EXCEPT ![tab] = CloseModalOp(@)]
  /\ UNCHANGED <<listeners, script, storage, ping, pending, commits, hist>>

\* ---- filters -----------------------------------------------------------
\* what the filter controls pass to window.handleProjectFilter and
\* window.handlePriorityFilter
ProjectFilterValues == {"Kitchen", "All Projects", "Garage"}
PriorityFilterValues == {"High Priority", "All"}

\* the value lowercased, its white space replaced by '-'; 'all' when it
\* contains 'all' or is none of kitchen, basement, bathroom
NormalizeProject(value) ==
  LET v == CASE value = "Kitchen" -> "kitchen"
             [] value = "Basement" -> "basement"
             [] value = "Bathroom" -> "bathroom"
             [] value = "All Projects" -> "all-projects"
             [] value = "Garage" -> "garage"
             [] value \in {"kitchen", "basement", "bathroom", "project-1"} -> value
             [] OTHER -> "all"
  IN IF v = "all-projects" THEN "all"
     ELSE IF v \notin {"kitchen", "basement", "bathroom", "all"} THEN "all"
     ELSE v

\* 'high', 'medium' or 'low' when the lowercased value contains the word,
\* 'all' otherwise
NormalizePriority(value) ==
  CASE value = "High Priority" -> "high"
    [] value = "Medium Priority" -> "medium"
    [] value = "Low Priority" -> "low"
    [] OTHER -> "all"

\* a filterByProject that keeps only the tasks it shows
FilterByProjectOp_Prune(me, value) ==
  LET m == [me EXCEPT !.currentFilter = NormalizeProject(value)]
  IN RenderKanban(ReindexTasks([m EXCEPT !.tasks.items = GetFilteredTasks(m)]))

\* filterByProject, filterByPriority on the kanban page
FilterByProjectOp(me, value) ==
  RenderKanban([me EXCEPT !.currentFilter = NormalizeProject(value)])

FilterByPriorityOp(me, value) ==
  RenderKanban([me EXCEPT !.currentPriorityFilter = NormalizePriority(value)])

FilterByProject(tab, value) ==
  /\ Usable(tab) /\ Idle(tab)
  /\ app' = [app EXCEPT ![tab] = FilterByProjectOp(@, value)]
  /\ UNCHANGED <<listeners, script, storage, ping, pending, commits, hist>>

FilterByPriority(tab, value) ==
  /\ Usable(tab) /\ Idle(tab)
  /\ app' = [app EXCEPT ![tab] = FilterByPriorityOp(@, value)]
  /\ UNCHANGED <<listeners, script, storage, ping, pending, commits, hist>>

\* ---- drag and drop -----------------------------------------------------
\* the first element with class "dragging" in document order: <<status, i>>
DraggingCards(board) ==
  {p \in UNION {{s} \X DOMAIN board[s] : s \in Statuses} : board[p[1]][p[2]].dragging}

StatusIndex(s) == CHOOSE i \in DOMAIN StatusOrder : StatusOrder[i] = s

FirstDragging(board) ==
  CHOOSE p \in DraggingCards(board) :
    \A q \in DraggingCards(board) :
      \/ StatusIndex(p[1]) < StatusIndex(q[1])
      \/ (p[1] = q[1] /\ p[2] <= q[2])

RemoveAt(seq, i) == SubSeq(seq, 1, i - 1) \o SubSeq(seq, i + 1, Len(seq))
InsertAt(seq, i, x) == SubSeq(seq, 1, i - 1) \o <<x>> \o SubSeq(seq, i, Len(seq))

\* The browser's drag gesture of a tab: drag is "none", "active" (between
\* dragstart and the release) or "dropped" (the drop event was delivered,
\* dragend is still to come); over is the column whose dragover handler
\* last accepted the drag with preventDefault, the only place where a
\* release raises a drop event.

\* the user starts dragging the card at position i of column s; the card's
\* dragstart listener, if it has one, sets the class and the flag
DragStart(tab, s, i) ==
  LET me == app[tab] IN
  /\ Usable(tab) /\ me.rendered /\ me.drag = "none"
  /\ me.modal.kind = "none"
  /\ i \in DOMAIN me.board[s]
  /\ app' = [app EXCEPT ![tab].drag = "active",
                         ![tab].board[s][i].grabbed = TRUE,
                         ![tab].board[s][i].dragging = me.board[s][i].wired]
  /\ UNCHANGED <<listeners, script, storage, ping, pending, commits, hist>>

\* dragover on column s: preventDefault; the element with class
\* "dragging", if any, is moved into the column at the place
\* getDragAfterElement gives (pos)
DragOverOp(me, s, pos) ==
  LET p == FirstDragging(me.board)
      card == me.board[p[1]][p[2]]
      without == [me.board EXCEPT ![p[1]] = RemoveAt(@, p[2])]
  IN IF DraggingCards(me.board) = {} THEN [me EXCEPT !.over = s]
     ELSE [me EXCEPT !.over = s,
                     !.board = [without EXCEPT ![s] =
                                  InsertAt(@, IF pos > Len(@) + 1 THEN Len(@) + 1 ELSE pos, card)]]

DragOver(tab, s, pos) ==
  LET me == app[tab] IN
  /\ script = "AtlasApp"
  /\ me.phase = "running" /\ me.rendered /\ me.drag = "active"
  /\ me.over # s
  /\ DraggingCards(me.board) = {} => pos = 1
  /\ app' = [app EXCEPT ![tab] = DragOverOp(me, s, pos)]
  /\ UNCHANGED <<listeners, script, storage, ping, pending, commits, hist>>

\* the pointer leaves every column
DragLeave(tab) ==
  /\ script = "AtlasApp"
  /\ app[tab].drag = "active" /\ app[tab].over # "none"
  /\ app' = [app EXCEPT ![tab].over = "none"]
  /\ UNCHANGED <<listeners, script, storage, ping, pending, commits, hist>>

\* drop on column s: updateTaskStatus(id of the element with class
\* "dragging", data-status of the column); nothing without such an element
DropOp(w, s) ==
  LET p == FirstDragging(w.me.board)
  IN IF DraggingCards(w.me.board) = {} THEN w
     ELSE UpdateTaskStatus(w, w.me.board[p[1]][p[2]].taskId, s)

Drop(tab, s, tick) ==
  LET me == app[tab]
      w1 == DropOp(World(tab, tick), s)
  IN /\ script = "AtlasApp"
     /\ me.phase = "running" /\ me.rendered /\ me.drag = "active"
     /\ me.over = s
     /\ IsArray(me.tasks)
     /\ Outcome(tab, [w1 EXCEPT !.me.drag = "dropped"])
     /\ IF w1.fired = 0 THEN UNCHANGED hist
        ELSE Did("drop", tab, me.board[FirstDragging(me.board)[1]][FirstDragging(me.board)[2]].taskId, s)
     /\ UNCHANGED <<commits>>

\* dragend, after a drop or when the drag is cancelled or released outside
\* every column: the listener of the dragged card clears class and flag
DragEndOp(me) ==
  LET release(c) == IF c.grabbed
                    THEN [c EXCEPT !.grabbed = FALSE,
                                   !.dragging = IF c.wired THEN FALSE ELSE @]
                    ELSE c
  IN [me EXCEPT !.drag = "none", !.over = "none",
                !.board = [s \in Statuses |->
                             [i \in DOMAIN me.board[s] |-> release(me.board[s][i])]]]

DragEnd(tab) ==
  /\ script = "AtlasApp"
  /\ app[tab].phase = "running" /\ app[tab].drag # "none"
  /\ app' = [app EXCEPT ![tab] = DragEndOp(@)]
  /\ UNCHANGED <<listeners, script, storage, ping, pending, commits, hist>>

\* ------------------------------------------------------------------------
\* ProjectAtlas: one instance per tab, on the kanban page
\* ------------------------------------------------------------------------
\* A Map value or a closure variable that holds a task object (ref) is the
\* position of the object in this.tasks: every handler that replaces the
\* array rebuilds the maps and the cards before it returns.  A dialog can
\* outlive the task its handlers hold: its ref is then Detached, the
\* object being in no collection any more, and 0 stands for no object.
Detached == -1

\* dragover marks the drag as moved beyond this pointer travel
DragThreshold == 5

\* attachSafeClick ignores a click once the pointer was seen farther than
\* this from where the button went down
ClickThreshold == 4

\* the URL of the page has no project parameter
NoParam == "(none)"

PA_New ==
  [phase |-> "running",
   tasks |-> Arr(<<>>), projects |-> Arr(<<>>),
   taskById |-> <<>>, taskByTitle |-> <<>>,
   dragState |-> [isDragging |-> FALSE, moved |-> FALSE],
   drag |-> "none", over |-> "none", transfer |-> <<>>,
   board |-> EmptyBoard,
   modals |-> <<>>,
   toast |-> NoToast,
   uncaught |-> FALSE,     \* a handler of the page has thrown
   project |-> NoParam]    \* parseQuery().project of the page's URL

PA_Closed == [PA_New EXCEPT !.phase = "closed"]

\* Map.set in collection order: the last task with a key keeps it
LastWithId(ts, k) ==
  CHOOSE i \in DOMAIN ts : ts[i].id = k /\ \A j \in (i + 1)..Len(ts) : ts[j].id # k

TitleKey(t) == Trim(ToLowerCase(t.title))

LastWithTitleKey(ts, k) ==
  CHOOSE i \in DOMAIN ts :
    TitleKey(ts[i]) = k /\ \A j \in (i + 1)..Len(ts) : TitleKey(ts[j]) # k

\* indexTasks
PA_indexTasks(me) ==
  LET ts == me.tasks.items
  IN [me EXCEPT
        !.taskById = [k \in {ts[i].id : i \in DOMAIN ts} |-> LastWithId(ts, k)],
        !.taskByTitle = [k \in {TitleKey(ts[i]) : i \in DOMAIN ts} |->
                           LastWithTitleKey(ts, k)]]

\* JSON.parse(localStorage.getItem(key)): getItem gives null for an absent
\* item and JSON.parse(null) is null; the empty string and text that is
\* not JSON raise a SyntaxError
ParseThrows(raw) == raw.k \in {"empty", "malformed"}
JSONparse(raw) == IF raw.k = "json" THEN raw.v ELSE JNull

\* loadData: either parse raising sends both collections to the seed
PA_loadData(w) ==
  LET rawT == w.storage["atlas_tasks"]
      rawP == w.storage["atlas_projects"]
      t == JSONparse(rawT)
      p == JSONparse(rawP)
      m == IF ParseThrows(rawT) \/ ParseThrows(rawP)
           THEN [w.me EXCEPT !.tasks = Arr(SEED_TASKS), !.projects = Arr(SEED_PROJECTS)]
           ELSE [w.me EXCEPT !.tasks = IF IsArray(t) THEN t ELSE Arr(SEED_TASKS),
                             !.projects = IF IsArray(p) THEN p ELSE Arr(SEED_PROJECTS)]
  IN [w EXCEPT !.me = PA_indexTasks(m)]

\* a saveData that leaves the tasks item as it was
PA_saveData_ProjectsOnly(w) ==
  [w EXCEPT !.storage["atlas_projects"] = JSONstringify(w.me.projects),
            !.me = PA_indexTasks(w.me)]

\* saveData
PA_saveData(w) ==
  [w EXCEPT !.storage["atlas_tasks"] = JSONstringify(w.me.tasks),
            !.storage["atlas_projects"] = JSONstringify(w.me.projects),
            !.me = PA_indexTasks(w.me)]

\* createTaskCard: the card carries the task id; its click handler holds
\* the task object (ref)
PA_createTaskCard(task, ref) == [taskId |-> task.id, dragging |-> FALSE, ref |-> ref]

\* the project filter of renderKanban
PA_Shown(me, t) == IF me.project # NoParam THEN t.project = me.project ELSE TRUE

\* a renderKanban that first gives every task whose status no column has
\* the status 'planning'
PA_renderKanban_Normalize(me) ==
  LET ts == [i \in DOMAIN me.tasks.items |->
               IF me.tasks.items[i].status \in Statuses THEN me.tasks.items[i]
               ELSE [me.tasks.items[i] EXCEPT !.status = "planning"]]
      Refs(s) == {i \in DOMAIN ts : PA_Shown(me, ts[i]) /\ ts[i].status = s}
      RECURSIVE Cards(_, _)
      Cards(s, i) ==
        IF i > Len(ts) THEN <<>>
        ELSE (IF i \in Refs(s) THEN <<PA_createTaskCard(ts[i], i)>> ELSE <<>>)
             \o Cards(s, i + 1)
  IN [me EXCEPT !.tasks.items = ts, !.board = [s \in Statuses |-> Cards(s, 1)]]

\* renderKanban: every column is cleared, then every task of the project
\* the URL names, or every task, gets a card in the column of its status,
\* or in 'planning' when no column has it
PA_renderKanban(me) ==
  LET ts == me.tasks.items
      ColumnOf(t) == IF t.status \in Statuses THEN t.status ELSE "planning"
      Refs(s) == {i \in DOMAIN ts : PA_Shown(me, ts[i]) /\ ColumnOf(ts[i]) = s}
      RECURSIVE Cards(_, _)
      Cards(s, i) ==
        IF i > Len(ts) THEN <<>>
        ELSE (IF i \in Refs(s) THEN <<PA_createTaskCard(ts[i], i)>> ELSE <<>>)
             \o Cards(s, i + 1)
  IN [me EXCEPT !.board = [s \in Statuses |-> Cards(s, 1)]]

\* a closeModal that toggles class 'show'
PA_closeModal_Toggle(me) ==
  IF me.modals = <<>> THEN me ELSE [me EXCEPT !.modals[1].closing = ~@]

\* closeModal: the first element with id atlas-modal loses class 'show'
\* and is removed 250 ms later
PA_closeModal(me) ==
  IF me.modals = <<>> THEN me ELSE [me EXCEPT !.modals[1].closing = TRUE]

\* createModal: closeModal, then the new overlay is appended to the body
\* (kind; ref and taskId: the task object its handlers hold and the id of
\* that object; name: the name the quick info shows; status: the preset
\* of the add form; via: the argument of the openTaskByIdOrName call that
\* mounted the overlay, a history field no code reads)
PA_createModal(me, kind, ref, taskId, name, status) ==
  [PA_closeModal(me) EXCEPT
     !.modals = Append(@, [kind |-> kind, ref |-> ref, taskId |-> taskId, name |-> name,
                           status |-> status, closing |-> FALSE, via |-> <<>>])]

\* showTaskDetailModal(task)
PA_showTaskDetailModal(me, ref, taskId) ==
  IF ref = 0 THEN me ELSE PA_createModal(me, "detail", ref, taskId, <<>>, "none")

\* showQuickTaskInfo(taskName, projectKey)
PA_showQuickTaskInfo(me, taskName) == PA_createModal(me, "quick", 0, <<>>, taskName, "none")

\* a resolver that asks the title map before the id map
PA_resolve_TitleFirst(me, idOrName) ==
  LET lower == Trim(ToLowerCase(idOrName))
  IN IF lower \in DOMAIN me.taskByTitle THEN me.taskByTitle[lower]
     ELSE IF idOrName \in DOMAIN me.taskById THEN me.taskById[idOrName]
     ELSE 0

\* a resolver whose last step takes the last task that matches
PA_resolve_FuzzyLast(me, idOrName) ==
  LET ts == me.tasks.items
      lower == Trim(ToLowerCase(idOrName))
      fuzzy == {i \in DOMAIN ts :
                  \/ Includes(ToLowerCase(ts[i].title), lower)
                  \/ Includes(lower, ToLowerCase(ts[i].title))}
  IN IF idOrName \in DOMAIN me.taskById THEN me.taskById[idOrName]
     ELSE IF lower \in DOMAIN me.taskByTitle THEN me.taskByTitle[lower]
     ELSE IF fuzzy # {} THEN CHOOSE i \in fuzzy : \A j \in fuzzy : i >= j
     ELSE 0

\* a title that is a string; a task object without the property has the
\* title undefined
IsString(title) == title # Undefined

\* the tasks tasks.find examines before one whose title has no
\* toLowerCase method
BeforeNonString(ts) ==
  {i \in DOMAIN ts : \A j \in 1..i : IsString(ts[j].title)}

\* t.title.toLowerCase() raises a TypeError: the id map and the title map
\* have no entry and find reaches a title that is not a string before a
\* task that matches
PA_resolveThrows(me, idOrName) ==
  LET ts == me.tasks.items
      lower == Trim(ToLowerCase(idOrName))
  IN /\ idOrName \notin DOMAIN me.taskById
     /\ lower \notin DOMAIN me.taskByTitle
     /\ BeforeNonString(ts) # DOMAIN ts
     /\ \A i \in BeforeNonString(ts) :
          /\ ~Includes(ToLowerCase(ts[i].title), lower)
          /\ ~Includes(lower, ToLowerCase(ts[i].title))

\* the three lookups of openTaskByIdOrName: id map, title map on the
\* lowercased, trimmed argument, then the first task whose lowercased
\* title contains the key or is contained in it; 0 when none matches
PA_resolve(me, idOrName) ==
  LET ts == me.tasks.items
      lower == Trim(ToLowerCase(idOrName))
      fuzzy == {i \in BeforeNonString(ts) :
                  \/ Includes(ToLowerCase(ts[i].title), lower)
                  \/ Includes(lower, ToLowerCase(ts[i].title))}
  IN IF idOrName \in DOMAIN me.taskById THEN me.taskById[idOrName]
     ELSE IF lower \in DOMAIN me.taskByTitle THEN me.taskByTitle[lower]
     ELSE IF fuzzy # {} THEN CHOOSE i \in fuzzy : \A j \in fuzzy : i <= j
     ELSE 0

\* openTaskByIdOrName
PA_openTaskByIdOrName(me, idOrName) ==
  LET opened == IF PA_resolve(me, idOrName) # 0
                THEN PA_showTaskDetailModal(me, PA_resolve(me, idOrName),
                                            me.tasks.items[PA_resolve(me, idOrName)].id)
                ELSE PA_showQuickTaskInfo(me, idOrName)
  IN IF idOrName = <<>> THEN me
     ELSE IF PA_resolveThrows(me, idOrName) THEN [me EXCEPT !.uncaught = TRUE]
     ELSE [opened EXCEPT !.modals[Len(opened.modals)].via = idOrName]

\* the constructor on DOMContentLoaded: loadData, exposeGlobals,
\* initializePage (setupKanban: renderKanban, setupKanbanDnD)
PA_constructor(w, project) ==
  LET w1 == PA_loadData([w EXCEPT !.me = [PA_New EXCEPT !.project = project]])
  IN [w1 EXCEPT !.me = PA_renderKanban(w1.me)]

\* ------------------------------------------------------------------------
\* Actions of ProjectAtlas
\* ------------------------------------------------------------------------
\* Date.now(), in clock ticks: every commit takes a tick
Now == commits["A"] + commits["B"] + 1

PA_Idle(tab) == app[tab].modals = <<>> /\ app[tab].drag = "none"

PA_Usable(tab) ==
  /\ script = "ProjectAtlas"
  /\ app[tab].phase = "running"
  /\ \A o \in Tabs \ {tab} : PA_Idle(o)

\* the overlay in front of the others, the one the user can reach
PA_Top(me) == me.modals[Len(me.modals)]
PA_HasTop(me, kind) ==
  me.modals # <<>> /\ ~PA_Top(me).closing /\ PA_Top(me).kind = kind
PA_NoTop(me) == IF me.modals = <<>> THEN TRUE ELSE PA_Top(me).closing
\* the page can be reached: no dialog is in front of it, and at most
\* MaxLinger overlays still wait for their removal
PA_CanOpen(me) == PA_NoTop(me) /\ Len(me.modals) <= MaxLinger

\* what the queries of the pages' inline handlers can be
OpenQueries == {S_t1, S_t2, S_Or, <<"o", "r">>, <<"O">>, S_tx, <<>>}
\* where the pointer is taken during a drag, and how far from the start
DropTargets == {"done", "blocked", "outside"}
DragDistances == {3, 6}
\* the project parameter of the URL the page is opened with
\* (kanban.html, kanban.html?project=<id of a project>)
UrlProjects == {NoParam, "kitchen"}

\* ProjectAtlas has no code that runs on what another tab does: one tab
PA_Open(tab, project) ==
  /\ script = "ProjectAtlas" /\ tab = "A"
  /\ tab = "B" => app["A"].phase # "closed"
  /\ \A o \in Tabs : PA_Idle(o)
  /\ Outcome(tab, PA_constructor([World(tab, FALSE) EXCEPT !.reload = TRUE], project))
  /\ hist' = [op |-> "open", tab |-> tab, taskId |-> <<>>, status |-> "none",
              open |-> hist.open \ {tab},
              seededBy |-> IF \A k \in Keys : storage[k] = Absent THEN tab
                           ELSE hist.seededBy,
              asked |-> FALSE]
  /\ UNCHANGED <<commits>>

\* an add-task button or window.showNewTaskModal(status)
PA_ShowAddTaskModal(tab, status) ==
  LET me == app[tab] IN
  /\ PA_Usable(tab) /\ me.drag = "none" /\ PA_CanOpen(me)
  /\ app' = [app EXCEPT ![tab] = PA_createModal(me, "add", 0, <<>>, <<>>, status)]
  /\ UNCHANGED <<listeners, script, storage, ping, pending, commits, hist>>

\* submit of the add form (the required title input is not empty); id is
\* what uid('t') returns
PA_SubmitAdd(tab, id, title, project, priority) ==
  LET me == app[tab]
      newTask == [Task(id, Trim(title), PA_Top(me).status, project, priority)
                    EXCEPT !.updatedAt = Now]
      w1 == PA_saveData([World(tab, FALSE) EXCEPT !.me.tasks.items = Append(@, newTask)])
      m2 == PA_renderKanban(PA_closeModal(w1.me))
  IN /\ PA_Usable(tab) /\ me.drag = "none" /\ PA_HasTop(me, "add")
     /\ commits[tab] < MaxCommits
     /\ title # <<>>
     /\ id \notin IdsOfTasks(me.tasks.items)
     /\ project \in {me.projects.items[i].id : i \in DOMAIN me.projects.items}
     /\ IF newTask.title = <<>>
        THEN Outcome(tab, [World(tab, FALSE) EXCEPT !.me = Toast(@, "titleRequired", <<>>, "none")])
        ELSE Outcome(tab, [w1 EXCEPT !.me = PA_showTaskDetailModal(m2, Len(m2.tasks.items), id)])
     /\ commits' = [commits EXCEPT ![tab] = @ + 1]
     /\ Did(IF newTask.title = <<>> THEN "rejected" ELSE "add", tab, id, newTask.status)

\* the click listener of attachSafeClick on a card: moved is what its
\* mousemove listener has set since mousedown
PA_safeClick(me, card, d) ==
  IF me.dragState.isDragging \/ me.dragState.moved \/ d > ClickThreshold THEN me
  ELSE PA_showTaskDetailModal(me, card.ref, card.taskId)

\* a click on the card at position i of column s, the pointer having
\* travelled d on the card since the button went down
PA_CardClick(tab, s, i, d) ==
  LET me == app[tab] IN
  /\ PA_Usable(tab) /\ me.drag = "none" /\ PA_CanOpen(me)
  /\ i \in DOMAIN me.board[s]
  /\ app' = [app EXCEPT ![tab] = PA_safeClick(me, me.board[s][i], d)]
  /\ UNCHANGED <<listeners, script, storage, ping, pending, commits, hist>>

\* window.showTaskDetail(idOrName), window.viewTaskDetail(taskId)
PA_OpenTask(tab, idOrName) ==
  LET me == app[tab] IN
  /\ PA_Usable(tab) /\ me.drag = "none" /\ PA_CanOpen(me)
  /\ app' = [app EXCEPT ![tab] = PA_openTaskByIdOrName(me, idOrName)]
  /\ UNCHANGED <<listeners, script, storage, ping, pending, commits, hist>>

\* the Edit button of the detail modal: showEditTaskModal(task.id)
PA_EditClick(tab) ==
  LET me == app[tab]
      id == PA_Top(me).taskId
  IN /\ PA_Usable(tab) /\ me.drag = "none" /\ PA_HasTop(me, "detail")
     /\ app' = [app EXCEPT ![tab] =
                  IF id \in DOMAIN me.taskById
                  THEN PA_createModal(me, "edit", me.taskById[id], id, <<>>, "none")
                  ELSE me]
     /\ UNCHANGED <<listeners, script, storage, ping, pending, commits, hist>>

\* submit of the edit form: the fields and updatedAt are assigned to the
\* task, saveData, closeModal, renderKanban, showTaskDetailModal(task)
PA_SubmitEdit(tab, title, project, status, priority) ==
  LET me == app[tab]
      ref == PA_Top(me).ref
      Edited(t) == [t EXCEPT !.title = Trim(title), !.project = project,
                             !.status = status, !.priority = priority,
                             !.updatedAt = Now]
      w0 == IF ref = Detached THEN World(tab, FALSE)
            ELSE [World(tab, FALSE) EXCEPT !.me.tasks.items[ref] = Edited(@)]
      w1 == PA_saveData(w0)
      m2 == PA_renderKanban(PA_closeModal(w1.me))
  IN /\ PA_Usable(tab) /\ me.drag = "none" /\ PA_HasTop(me, "edit")
     /\ commits[tab] < MaxCommits
     /\ title # <<>>
     /\ project \in {me.projects.items[i].id : i \in DOMAIN me.projects.items}
     /\ status \in EditStatuses
     /\ Outcome(tab, [w1 EXCEPT !.me = PA_showTaskDetailModal(m2, ref, PA_Top(me).taskId)])
     /\ commits' = [commits EXCEPT ![tab] = @ + 1]
     /\ Did(IF ref = Detached THEN "none" ELSE "edit", tab, PA_Top(me).taskId, status)

\* deleteTask(taskId) after confirm() was answered with OK
PA_deleteTask(w, taskId) ==
  LET ts == w.me.tasks.items
      Kept(ref) == Cardinality({j \in 1..ref : ts[j].id # taskId})
      Moved(m) == IF m.ref <= 0 THEN m
                  ELSE IF ts[m.ref].id = taskId THEN [m EXCEPT !.ref = Detached]
                  ELSE [m EXCEPT !.ref = Kept(m.ref)]
      w0 == [w EXCEPT !.me.tasks.items = SelectSeq(@, LAMBDA x : x.id # taskId),
                      !.me.modals = [i \in DOMAIN @ |-> Moved(@[i])]]
      w1 == PA_saveData(w0)
  IN [w1 EXCEPT !.me = PA_renderKanban(PA_closeModal(w1.me))]

\* the Delete button of the detail modal; ok is the answer to confirm()
PA_DeleteClick(tab, ok) ==
  LET me == app[tab]
      id == PA_Top(me).taskId
  IN /\ PA_Usable(tab) /\ me.drag = "none" /\ PA_HasTop(me, "detail")
     /\ commits[tab] < MaxCommits
     /\ IF ok
        THEN /\ Outcome(tab, PA_deleteTask(World(tab, FALSE), id))
             /\ commits' = [commits EXCEPT ![tab] = @ + 1]
             /\ DidAsked("delete", tab, id)
        ELSE /\ DidAsked("declined", tab, id)
             /\ UNCHANGED <<listeners, script, storage, ping, app, pending, commits>>

\* the close control, a backdrop click or Escape
PA_CloseModal(tab) ==
  /\ script = "ProjectAtlas"
  /\ app[tab].phase = "running" /\ app[tab].drag = "none"
  /\ app[tab].modals # <<>>
  /\ app' = [app EXCEPT ![tab] = PA_closeModal(@)]
  /\ UNCHANGED <<listeners, script, storage, ping, pending, commits, hist>>

\* the 250 ms timer of closeModal: modal.remove()
PA_ModalTimer(tab) ==
  LET ms == app[tab].modals
      i == CHOOSE j \in DOMAIN ms : ms[j].closing /\ \A k \in 1..(j - 1) : ~ms[k].closing
  IN /\ script = "ProjectAtlas"
     /\ \E j \in DOMAIN ms : ms[j].closing
     /\ app' = [app EXCEPT ![tab].modals = RemoveAt(ms, i)]
     /\ UNCHANGED <<listeners, script, storage, ping, pending, commits, hist>>

\* ---- drag and drop (document-level listeners of setupKanbanDnD) ---------
\* drag, over and transfer are the browser's side of the gesture: whether
\* one is under way, the place whose dragover was last answered with
\* preventDefault (a status column, "outside" for the rest of the
\* document, "none" when the pointer is not over the document), and the
\* text/plain item of the dataTransfer.

\* the cleanup at the end of the drop and dragend listeners
PA_cleanup(me) ==
  [me EXCEPT !.board = [s \in Statuses |->
                          [i \in DOMAIN me.board[s] |->
                             [me.board[s][i] EXCEPT !.dragging = FALSE]]],
             !.dragState = [isDragging |-> FALSE, moved |-> FALSE]]

\* dragstart on the card at position i of column s
PA_DragStart(tab, s, i) ==
  LET me == app[tab] IN
  /\ PA_Usable(tab) /\ me.drag = "none" /\ PA_CanOpen(me)
  /\ commits[tab] < MaxCommits
  /\ i \in DOMAIN me.board[s]
  /\ app' = [app EXCEPT ![tab].drag = "active",
                         ![tab].over = "none",
                         ![tab].transfer = me.board[s][i].taskId,
                         ![tab].dragState = [isDragging |-> TRUE, moved |-> FALSE],
                         ![tab].board[s][i].dragging = TRUE]
  /\ UNCHANGED <<listeners, script, storage, ping, pending, commits, hist>>

\* the dragover listener, the pointer being d away from where it started
PA_dragover(me, target, d) ==
  IF ~me.dragState.isDragging THEN me
  ELSE [me EXCEPT !.over = target,
                  !.dragState.moved = @ \/ d > DragThreshold]

PA_DragOver(tab, target, d) ==
  /\ script = "ProjectAtlas"
  /\ app[tab].phase = "running" /\ app[tab].drag = "active"
  /\ app' = [app EXCEPT ![tab] = PA_dragover(@, target, d)]
  /\ UNCHANGED <<listeners, script, storage, ping, pending, commits, hist>>

\* the pointer leaves the document
PA_DragLeave(tab) ==
  /\ script = "ProjectAtlas"
  /\ app[tab].drag = "active" /\ app[tab].over # "none"
  /\ app' = [app EXCEPT ![tab].over = "none"]
  /\ UNCHANGED <<listeners, script, storage, ping, pending, commits, hist>>

\* a drop listener that does not look whether there is a column
PA_Commits_AnyTarget(me, target) ==
  me.dragState.isDragging /\ me.transfer \in DOMAIN me.taskById

\* the drop listener: dropCol is the closest [data-status] of the target
PA_Commits(me, target) ==
  me.dragState.isDragging /\ target \in Statuses /\ me.transfer \in DOMAIN me.taskById

PA_drop(w, target, now) ==
  LET me == w.me
      ref == me.taskById[me.transfer]
      w1 == PA_saveData([w EXCEPT !.me.tasks.items[ref].status = target,
                                  !.me.tasks.items[ref].updatedAt = now])
  IN IF ~me.dragState.isDragging THEN w
     ELSE IF PA_Commits(me, target)
          THEN [w1 EXCEPT !.me = PA_cleanup(PA_renderKanban(w1.me))]
          ELSE [w EXCEPT !.me = PA_cleanup(me)]

\* the button is released where the last dragover was accepted
PA_Drop(tab) ==
  LET me == app[tab]
      w1 == PA_drop(World(tab, FALSE), me.over, Now)
  IN /\ script = "ProjectAtlas"
     /\ me.phase = "running" /\ me.drag = "active" /\ me.over # "none"
     /\ Outcome(tab, [w1 EXCEPT !.me.drag = "dropped"])
     /\ IF PA_Commits(me, me.over)
        THEN /\ commits' = [commits EXCEPT ![tab] = @ + 1]
             /\ Did("drop", tab, me.transfer, me.over)
        ELSE UNCHANGED <<commits, hist>>

\* the dragend listener, after a drop or when the drag is cancelled
PA_dragend(me) == PA_cleanup(me)

PA_DragEnd(tab) ==
  /\ script = "ProjectAtlas"
  /\ app[tab].phase = "running" /\ app[tab].drag # "none"
  /\ app' = [app EXCEPT ![tab] =
               [PA_dragend(@) EXCEPT !.drag = "none", !.over = "none", !.transfer = <<>>]]
  /\ UNCHANGED <<listeners, script, storage, ping, pending, commits, hist>>

\* ---- initial states ----------------------------------------------------
\* a well-formed persisted task collection that is not the seed; the title
\* of the second task reads like the id of the first
StoredTasks ==
  << Task(S_t1, S_Or, "planning", "kitchen", "high"),
     Task(S_t2, S_t1, "ready", "bathroom", "low") >>

\* a persisted task collection not written by the forms: the task object
\* has no title property
UntitledTasks ==
  << Task(S_t1, Undefined, "planning", "kitchen", "high") >>

\* and one whose task has a status no column of the board has
ArchivedTasks ==
  << Task(S_t1, S_Or, "archived", "kitchen", "high") >>

WellFormed ==
  [k \in Keys |->
     CASE k = "atlas_tasks" -> JSONstringify(Arr(StoredTasks))
       [] k = "atlas_projects" -> JSONstringify(Arr(SeedProjects))
       [] k = "atlas_documents" -> JSONstringify(Arr(SeedDocuments))
       [] OTHER -> JSONstringify(Arr(SeedEvents))]

\* what an item can hold when it is missing or was not written by saveData
OddItems ==
  {Absent, EmptyText, Malformed, JSONstringify(JNull), JSONstringify(JObject),
   JSONstringify(JNumber), JSONstringify(JString), JSONstringify(JEmptyString),
   JSONstringify(Arr(<<>>))}

\* localStorage when the first tab opens: empty, well-formed, or
\* well-formed but for one item
InitStorages ==
  {[k \in Keys |-> Absent], WellFormed}
  \cup {[WellFormed EXCEPT !["atlas_tasks"] = v] : v \in OddItems}
  \cup {[WellFormed EXCEPT !["atlas_projects"] = JSONstringify(JNull)],
        [WellFormed EXCEPT !["atlas_documents"] = JSONstringify(Arr(<<>>))],
        [WellFormed EXCEPT !["atlas_events"] = Malformed]}

Scripts == {"AtlasApp", "ProjectAtlas"}

\* task collections of another producer, considered for the class whose
\* resolver calls a method of the title and whose renderKanban has a
\* column for a status it does not know
ForeignStorages ==
  {[WellFormed EXCEPT !["atlas_tasks"] = JSONstringify(Arr(UntitledTasks))],
   [WellFormed EXCEPT !["atlas_tasks"] = JSONstringify(Arr(ArchivedTasks))]}

Init ==
  /\ script \in Scripts
  /\ storage \in InitStorages \cup
                  (IF script = "ProjectAtlas" THEN ForeignStorages ELSE {})
  /\ ping = -1
  /\ app = [tab \in Tabs |-> IF script = "AtlasApp" THEN ClosedApp ELSE PA_Closed]
  /\ pending = [tab \in Tabs |-> 0]
  /\ commits = [tab \in Tabs |-> 0]
  /\ hist = NoHist
  /\ listeners = [tab \in Tabs |-> NoListeners]

AtlasAppStep(tab) ==
    \/ Open(tab)
    \/ InitKanbanTimer(tab)
    \/ \E s \in AddStatuses : ShowAddTaskModal(tab, s)
    \/ \E id \in NewIds, title \in FormTitles, p \in FormProjects, q \in FormPriorities,
          tick \in Ticks : SubmitAddTask(tab, id, title, p, q, tick)
    \/ \E id \in OpenIds : OpenTaskById(tab, id)
    \/ \E name \in TaskNames : ShowTaskDetail(tab, name)
    \/ MoveTask(tab)
    \/ \E s \in MoveStatuses, tick \in Ticks : SubmitMove(tab, s, tick)
    \/ EditTaskModal(tab)
    \/ \E title \in FormTitles, p \in FormProjects, s \in Statuses,
          q \in FormPriorities, tick \in Ticks : SubmitEdit(tab, title, p, s, q, tick)
    \/ \E tick \in Ticks : DeleteClick(tab, tick)
    \/ CloseModal(tab)
    \/ \E s \in Statuses, i \in 1..MaxCards : DragStart(tab, s, i)
    \/ \E s \in DropColumns, pos \in 1..MaxCards : DragOver(tab, s, pos)
    \/ DragLeave(tab)
    \/ \E s \in DropColumns, tick \in Ticks : Drop(tab, s, tick)
    \/ DragEnd(tab)

NextAtlasApp == \E tab \in Tabs : AtlasAppStep(tab) \/ StorageEvent(tab)

ProjectAtlasStep(tab) ==
    \/ \E project \in UrlProjects : PA_Open(tab, project)
    \/ \E s \in AddStatuses : PA_ShowAddTaskModal(tab, s)
    \/ \E id \in NewIds, title \in FormTitles, p \in FormProjects, q \in FormPriorities :
          PA_SubmitAdd(tab, id, title, p, q)
    \/ \E s \in Statuses, i \in 1..MaxCards, d \in ClickTravels : PA_CardClick(tab, s, i, d)
    \/ \E q \in OpenQueries : PA_OpenTask(tab, q)
    \/ PA_EditClick(tab)
    \/ \E title \in FormTitles, p \in FormProjects, s \in Statuses, q \in FormPriorities :
          PA_SubmitEdit(tab, title, p, s, q)
    \/ \E ok \in BOOLEAN : PA_DeleteClick(tab, ok)
    \/ PA_CloseModal(tab)
    \/ PA_ModalTimer(tab)
    \/ \E s \in Statuses, i \in 1..MaxCards : PA_DragStart(tab, s, i)
    \/ \E target \in DropTargets, d \in DragDistances : PA_DragOver(tab, target, d)
    \/ PA_DragLeave(tab)
    \/ PA_Drop(tab)
    \/ PA_DragEnd(tab)

NextProjectAtlas == \E tab \in Tabs : ProjectAtlasStep(tab)

Next == NextAtlasApp \/ NextProjectAtlas

Spec == Init /\ [][Next]_vars

\* ---- the board with its filter controls ---------------------------------
\* The filter controls multiply the states of a page by the filter states;
\* they are explored with one tab, on the persisted collection and on the
\* seed.
FilterTabs == {"A"}

FilterInit ==
  /\ script \in Scripts
  /\ storage \in {[k \in Keys |-> Absent], WellFormed}
  /\ ping = -1
  /\ app = [tab \in Tabs |-> IF script = "AtlasApp" THEN ClosedApp ELSE PA_Closed]
  /\ pending = [tab \in Tabs |-> 0]
  /\ commits = [tab \in Tabs |-> 0]
  /\ hist = NoHist
  /\ listeners = [tab \in Tabs |-> NoListeners]

FilterStep(tab) ==
    \/ \E value \in ProjectFilterValues : FilterByProject(tab, value)
    \/ \E value \in PriorityFilterValues : FilterByPriority(tab, value)

\* clicks on the cards of the board
CardStep(tab) ==
  \E s \in Statuses, i \in 1..MaxCards, d \in ClickTravels : CardClick(tab, s, i, d)

\* window.showTaskDetail called with a name of spaces only
BlankQueries == {S_sp}

BlankStep(tab) == \E q \in BlankQueries : PA_OpenTask(tab, q)

FilterNext ==
  \E tab \in FilterTabs :
    \/ AtlasAppStep(tab) \/ FilterStep(tab) \/ CardStep(tab) \/ ProjectAtlasStep(tab)
    \/ BlankStep(tab)

FilterSpec == FilterInit /\ [][FilterNext]_vars

\* ---- the dialogs and their listeners -------------------------------------
\* One page, loaded from the persisted collection; dialogs are opened
\* through createModal and closed by every trigger, and the listeners that
\* createModal adds are followed.
ModalTabs == {"A"}

\* the page and its listeners
Page(tab) == [me |-> app[tab], ears |-> listeners[tab]]

\* the dialogs that are opened: the detail of the first task, the quick
\* information, the add form
ModalKinds == {"detail", "quick", "add"}

\* createModal with what it adds: ProjectAtlas a keydown listener on the
\* document (escHandler); AtlasApp a click listener on the overlay element
\* and the focus trap
CreateModalPage(p, kind) ==
  IF script = "AtlasApp"
  THEN [me |-> CreateModal(p.me, kind, IF kind = "detail" THEN S_t1 ELSE <<>>,
                           IF kind = "add" THEN "planning" ELSE "none"),
        ears |-> [p.ears EXCEPT !.backdrop = @ + 1, !.trap = TRUE]]
  ELSE [me |-> CASE kind = "detail" -> PA_showTaskDetailModal(p.me, 1, S_t1)
                 [] kind = "quick" -> PA_showQuickTaskInfo(p.me, S_tx)
                 [] OTHER -> PA_createModal(p.me, "add", 0, <<>>, <<>>, "planning"),
        ears |-> [p.ears EXCEPT !.esc = @ + 1]]

\* closeModal with what it removes: AtlasApp the focus trap; ProjectAtlas
\* nothing
CloseModalPage(p) ==
  IF script = "AtlasApp"
  THEN [me |-> CloseModalOp(p.me), ears |-> [p.ears EXCEPT !.trap = FALSE]]
  ELSE [me |-> PA_closeModal(p.me), ears |-> p.ears]

\* Escape: AtlasApp has one keydown listener for the page, which calls
\* closeModal; in ProjectAtlas every escHandler calls closeModal and
\* removes itself
EscapePage(p) ==
  IF script = "AtlasApp" THEN CloseModalPage(p)
  ELSE IF p.ears.esc = 0 THEN p
  ELSE [me |-> PA_closeModal(p.me), ears |-> [p.ears EXCEPT !.esc = 0]]

SetPage(tab, p) ==
  /\ app' = [app EXCEPT ![tab] = p.me]
  /\ listeners' = [listeners EXCEPT ![tab] = p.ears]
  /\ UNCHANGED <<script, storage, ping, pending, commits, hist>>

ModalOpen(tab, kind) ==
  /\ app[tab].phase = "running"
  /\ listeners[tab].esc < MaxOpens /\ listeners[tab].backdrop < MaxOpens
  /\ script = "ProjectAtlas" => Len(app[tab].modals) < MaxOpens
  /\ SetPage(tab, CreateModalPage(Page(tab), kind))

\* the close control or a click on the backdrop
ModalCloseClick(tab) ==
  /\ app[tab].phase = "running"
  /\ IF script = "AtlasApp" THEN app[tab].modal.kind # "none"
     ELSE app[tab].modals # <<>>
  /\ SetPage(tab, CloseModalPage(Page(tab)))

\* the Escape key
ModalEscape(tab) ==
  /\ app[tab].phase = "running"
  /\ SetPage(tab, EscapePage(Page(tab)))

\* a page of the script on the persisted collection, after its first render
LoadedPage ==
  LET w == [me |-> IF script = "AtlasApp" THEN NewApp ELSE PA_New,
            storage |-> WellFormed, ping |-> -1, tick |-> FALSE, fired |-> 0,
            threw |-> FALSE, reload |-> TRUE]
  IN IF script = "AtlasApp"
     THEN [RenderKanban(Constructor(w).me) EXCEPT !.initTimer = FALSE]
     ELSE PA_constructor(w, NoParam).me

ModalInit ==
  /\ script \in Scripts
  /\ storage = WellFormed
  /\ ping = -1
  /\ app = [tab \in Tabs |->
              IF tab \in ModalTabs THEN LoadedPage
              ELSE IF script = "AtlasApp" THEN ClosedApp ELSE PA_Closed]
  /\ pending = [tab \in Tabs |-> 0]
  /\ commits = [tab \in Tabs |-> 0]
  /\ hist = NoHist
  /\ listeners = [tab \in Tabs |-> NoListeners]

ModalStep(tab) ==
    \/ \E kind \in ModalKinds : ModalOpen(tab, kind)
    \/ ModalCloseClick(tab)
    \/ ModalEscape(tab)
    \/ PA_ModalTimer(tab)

ModalNext == \E tab \in ModalTabs : ModalStep(tab)

ModalSpec == ModalInit /\ [][ModalNext]_vars

\* ------------------------------------------------------------------------
\* The ping item and the clock: scripts of two AtlasApp tabs on a persisted
\* board call window.atlas.updateTaskStatus; the Date.now() of a notify can
\* be the value the ping item holds when the notify before it was less
\* than a millisecond ago (no page was loaded in between)
\* ------------------------------------------------------------------------
MaxCalls == 2
ClockTicks == BOOLEAN

\* window.atlas.updateTaskStatus(id, newStatus), called by a script
UpdateTaskStatusCall(tab, id, newStatus, tick) ==
  LET me == app[tab]
      w1 == UpdateTaskStatus(World(tab, tick), id, newStatus)
  IN /\ Usable(tab) /\ me.rendered /\ Idle(tab)
     /\ commits[tab] < MaxCalls
     /\ ~tick => hist.op = "move"
     /\ Outcome(tab, w1)
     /\ commits' = [commits EXCEPT ![tab] = @ + 1]
     /\ Did(IF FindIndex(me.tasks.items, id) = 0 THEN "none" ELSE "move", tab, id, newStatus)

ClockInit ==
  /\ script = "AtlasApp"
  /\ storage = WellFormed
  /\ ping = -1
  /\ app = [tab \in Tabs |-> ClosedApp]
  /\ pending = [tab \in Tabs |-> 0]
  /\ commits = [tab \in Tabs |-> 0]
  /\ hist = NoHist
  /\ listeners = [tab \in Tabs |-> NoListeners]

ClockStep(tab) ==
    \/ Open(tab)
    \/ InitKanbanTimer(tab)
    \/ StorageEvent(tab)
    \/ \E id \in OpenIds, s \in MoveStatuses, tick \in ClockTicks :
         UpdateTaskStatusCall(tab, id, s, tick)

ClockNext == \E tab \in Tabs : ClockStep(tab)

ClockSpec == ClockInit /\ [][ClockNext]_vars

\* ------------------------------------------------------------------------
\* Projects created by the user: one AtlasApp page on which a project is
\* created, tasks are added to it and the project filter is set
\* ------------------------------------------------------------------------
\* 'project-' + Date.now()
NewProjectIds == {"project-1"}

\* window.showNewProjectModal
ShowNewProjectModal(tab) ==
  /\ Usable(tab) /\ Idle(tab)
  /\ app' = [app EXCEPT ![tab] = CreateModal(@, "project", <<>>, "none")]
  /\ UNCHANGED <<listeners, script, storage, ping, pending, commits, hist>>

\* submit of the new-project form: the project is pushed, saveData,
\* closeModal, toast
SubmitNewProject(tab, id, tick) ==
  LET me == app[tab]
      w1 == SaveData([World(tab, tick) EXCEPT !.me.projects.items = Append(@, [id |-> id])], TRUE)
  IN /\ Usable(tab) /\ me.drag = "none"
     /\ me.modal.kind = "project"
     /\ id \notin ProjectIds(me)
     /\ Outcome(tab, [w1 EXCEPT !.me = Toast(CloseModalOp(@), "projectCreated", <<>>, "none")])
     /\ UNCHANGED <<commits, hist>>

\* what the project filter passes for the projects of the Store
StoreFilterValues == {"kitchen", "bathroom", "project-1", "All Projects"}

ProjectStep(tab) ==
    \/ Open(tab)
    \/ InitKanbanTimer(tab)
    \/ ShowNewProjectModal(tab)
    \/ \E id \in NewProjectIds, tick \in Ticks : SubmitNewProject(tab, id, tick)
    \/ ShowAddTaskModal(tab, "planning")
    \/ \E id \in NewIds, title \in FormTitles, p \in FormProjects \cup NewProjectIds,
          q \in FormPriorities, tick \in Ticks : SubmitAddTask(tab, id, title, p, q, tick)
    \/ \E value \in StoreFilterValues : FilterByProject(tab, value)
    \/ CloseModal(tab)

ProjectInit ==
  /\ script = "AtlasApp"
  /\ storage \in {[k \in Keys |-> Absent], WellFormed}
  /\ ping = -1
  /\ app = [tab \in Tabs |-> ClosedApp]
  /\ pending = [tab \in Tabs |-> 0]
  /\ commits = [tab \in Tabs |-> 0]
  /\ hist = NoHist
  /\ listeners = [tab \in Tabs |-> NoListeners]

ProjectNext == \E tab \in FilterTabs : ProjectStep(tab)

ProjectSpec == ProjectInit /\ [][ProjectNext]_vars

\* ------------------------------------------------------------------------
\* Two tabs and one localStorage: the tabs are separate processes, and
\* nothing locks localStorage between the reads of a loadData and its
\* saveData(false), so a handler of another tab can run in between
\* ------------------------------------------------------------------------
\* the page is requested: loadData has read the four items
BeginLoad(tab) ==
  LET r == LoadReads([World(tab, FALSE) EXCEPT !.me = NewApp])
  IN /\ script = "AtlasApp"
     /\ app[tab].phase = "closed"
     /\ ~r.threw
     /\ app' = [app EXCEPT ![tab] = [r.me EXCEPT !.phase = "loading"]]
     /\ UNCHANGED <<listeners, script, storage, ping, pending, commits, hist>>

\* saveData(false) of loadData, and the rest of the constructor
FinishLoad(tab) ==
  LET w0 == [World(tab, FALSE) EXCEPT !.me.phase = "running", !.reload = TRUE]
  IN /\ script = "AtlasApp"
     /\ app[tab].phase = "loading"
     /\ Outcome(tab, AfterLoadData(SaveData(w0, FALSE)))
     /\ hist' = [hist EXCEPT !.op = "open", !.tab = tab, !.taskId = <<>>,
                             !.status = "none", !.asked = FALSE]
     /\ UNCHANGED commits

RaceInit ==
  /\ script = "AtlasApp"
  /\ storage = WellFormed
  /\ ping = -1
  /\ app = [tab \in Tabs |-> ClosedApp]
  /\ pending = [tab \in Tabs |-> 0]
  /\ commits = [tab \in Tabs |-> 0]
  /\ hist = NoHist
  /\ listeners = [tab \in Tabs |-> NoListeners]

RaceStep(tab) ==
    \/ BeginLoad(tab)
    \/ FinishLoad(tab)
    \/ InitKanbanTimer(tab)
    \/ StorageEvent(tab)
    \/ \E id \in OpenIds, s \in MoveStatuses : UpdateTaskStatusCall(tab, id, s, TRUE)

RaceNext == \E tab \in Tabs : RaceStep(tab)

RaceSpec == RaceInit /\ [][RaceNext]_vars

\* ------------------------------------------------------------------------
\* Properties
\* ------------------------------------------------------------------------
\* the collection an item persists; ProjectAtlas has tasks and projects
KeysOf(sc) == IF sc = "AtlasApp" THEN Keys ELSE {"atlas_tasks", "atlas_projects"}

Collection(me, k) ==
  CASE k = "atlas_tasks" -> me.tasks
    [] k = "atlas_projects" -> me.projects
    [] k = "atlas_documents" -> me.documents
    [] OTHER -> me.events

SeedOf(sc, k) ==
  CASE k = "atlas_tasks" -> IF sc = "AtlasApp" THEN SeedTasks ELSE SEED_TASKS
    [] k = "atlas_projects" -> IF sc = "AtlasApp" THEN SeedProjects ELSE SEED_PROJECTS
    [] k = "atlas_documents" -> SeedDocuments
    [] OTHER -> SeedEvents

\* the page of tab is loaded in this step
Loads(tab) == Open(tab) \/ \E project \in UrlProjects : PA_Open(tab, project)

StatusIn(ts, id) == ts[FindIndex(ts, id)].status

OnBoard(me, id, s) == \E i \in DOMAIN me.board[s] : me.board[s][i].taskId = id

\* C1: two tabs have the board open; once tab A has committed the move of
\* task T to 'done' (save and notify) and tab B has handled every storage
\* event the commit raised, T has status 'done' in the memory of tab B and
\* the board of tab B shows T in the 'done' column, without a reload.
C1_PeerSeesMove ==
  \A b \in Tabs :
    ( /\ hist.op \in {"move", "drop"}
      /\ hist.status = "done"
      /\ hist.tab # b
      /\ b \in hist.open
      /\ pending[b] = 0 )
    => ( /\ FindIndex(app[b].tasks.items, hist.taskId) # 0
         /\ StatusIn(app[b].tasks.items, hist.taskId) = "done"
         /\ OnBoard(app[b], hist.taskId, "done") )

\* C2: after a drop that commits task T onto column C, T has status C in
\* the memory of the tab and in the persisted snapshot, whatever else the
\* page has done since (re-render, dragend), until the next commit or load.
C2_DropCommitsStatus ==
  hist.op = "drop" =>
    /\ FindIndex(app[hist.tab].tasks.items, hist.taskId) # 0
    /\ StatusIn(app[hist.tab].tasks.items, hist.taskId) = hist.status
    /\ storage["atlas_tasks"].k = "json"
    /\ FindIndex(storage["atlas_tasks"].v.items, hist.taskId) # 0
    /\ StatusIn(storage["atlas_tasks"].v.items, hist.taskId) = hist.status

\* a committed drop that changed the status of the task, dragend pending
C2_Witness ==
  /\ script = "ProjectAtlas"
  /\ hist.op = "drop" /\ hist.status = "done"
  /\ app["A"].drag = "dropped"
  /\ StatusIn(app["A"].tasks.items, hist.taskId) = "done"
  /\ OnBoard(app["A"], hist.taskId, "done")

\* a step of a drag other than a drop on a status column: dragstart,
\* dragover, the pointer leaving, a drop outside every column, dragend
DragStepWithoutColumnDrop(tab) ==
  \/ /\ script = "ProjectAtlas"
     /\ \/ \E s \in Statuses, i \in 1..MaxCards : PA_DragStart(tab, s, i)
        \/ \E target \in DropTargets, d \in DragDistances : PA_DragOver(tab, target, d)
        \/ PA_DragLeave(tab)
        \/ PA_Drop(tab) /\ app[tab].over \notin Statuses
        \/ PA_DragEnd(tab)
  \/ /\ script = "AtlasApp"
     /\ \/ \E s \in Statuses, i \in 1..MaxCards : DragStart(tab, s, i)
        \/ \E s \in DropColumns, pos \in 1..MaxCards : DragOver(tab, s, pos)
        \/ DragLeave(tab)
        \/ DragEnd(tab)

\* C3: a drag that ends by a drop outside every column or is cancelled
\* changes no field of any task, writes nothing to storage and sends no
\* notification, in any of its steps.
C3_CancelledDragChangesNothing ==
  [][\A tab \in Tabs :
       DragStepWithoutColumnDrop(tab) =>
         /\ storage' = storage /\ ping' = ping /\ pending' = pending
         /\ \A o \in Tabs : app'[o].tasks = app[o].tasks]_vars

\* a moved drag was released outside every column: the drop listener ran
C3_Witness ==
  /\ script = "ProjectAtlas"
  /\ app["A"].drag = "dropped" /\ app["A"].over = "outside"
  /\ app["A"].transfer \in DOMAIN app["A"].taskById

\* C4: loadData never throws, whatever the items hold (absent, not JSON,
\* or JSON that is not an array: null, an object, a number, a string);
\* the seed stands in for whatever was not a persisted array.
C4_LoadNeverThrows ==
  [][\A tab \in Tabs :
       Loads(tab) =>
         /\ app'[tab].phase # "crashed"
         /\ \A k \in KeysOf(script) :
              (storage[k].k # "json" \/ ~IsArray(storage[k].v))
              => Collection(app'[tab], k) = Arr(SeedOf(script, k))]_vars

\* what a page loaded from the items st holds as its tasks
TasksLoadedFrom(st) ==
  LET w == [me |-> IF script = "AtlasApp" THEN NewApp ELSE PA_New, storage |-> st,
            ping |-> ping, tick |-> FALSE, fired |-> 0, threw |-> FALSE, reload |-> TRUE]
  IN IF script = "AtlasApp" THEN LoadData(w).me.tasks ELSE PA_loadData(w).me.tasks

\* C5: a load that finds localStorage empty creates the seed (N tasks, 3
\* projects) and persists it before it returns; the load that follows
\* reads the persisted seed and holds the same N tasks.
C5_SeedPersistedOnLoad ==
  [][\A tab \in Tabs :
       (Loads(tab) /\ \A k \in Keys : storage[k] = Absent) =>
         /\ app'[tab].tasks = Arr(SeedOf(script, "atlas_tasks"))
         /\ Len(app'[tab].projects.items) = 3
         /\ storage'["atlas_tasks"] = JSONstringify(app'[tab].tasks)
         /\ storage'["atlas_projects"] = JSONstringify(app'[tab].projects)
         /\ TasksLoadedFrom(storage') = app'[tab].tasks]_vars

\* the persisted snapshot is what saveData writes from the memory of tab o
Persisted(o) ==
  /\ app[o].phase = "running"
  /\ \A k \in KeysOf(script) :
       IsArray(Collection(app[o], k)) /\ storage[k] = JSONstringify(Collection(app[o], k))

\* C6: save(); load() is a round trip: a page loaded from the snapshot a
\* tab has saved holds collections equal to those of the saving tab, the
\* empty collection included.
C6_SaveLoadRoundTrip ==
  [][\A tab, o \in Tabs :
       (Persisted(o) /\ Loads(tab))
       => \A k \in KeysOf(script) : Collection(app'[tab], k) = Collection(app[o], k)]_vars

\* C7: the seed is used only when no state is persisted: loadData returns
\* a persisted array as it is, the empty array too, and leaves the item.
C7_SeedOnlyWithoutState ==
  [][\A tab \in Tabs, k \in KeysOf(script) :
       (Loads(tab) /\ storage[k].k = "json" /\ IsArray(storage[k].v))
       => /\ Collection(app'[tab], k) = storage[k].v
          /\ storage'[k] = storage[k]]_vars

\* the step is a commit of tab that calls saveData
Saves(tab) ==
  /\ commits'[tab] = commits[tab] + 1
  /\ hist'.tab = tab
  /\ hist'.op \in {"add", "edit", "move", "delete", "drop"}

\* C8: every save overwrites the persisted snapshot as a whole: after it
\* each item is the collection in the memory of the saving tab, whatever
\* another tab had saved from the same snapshot before (last save wins).
C8_LastSaveWins ==
  [][\A tab \in Tabs :
       Saves(tab) =>
         \A k \in KeysOf(script) :
           storage'[k] = JSONstringify(Collection(app'[tab], k))]_vars

\* tab A added a task, then tab B, still on the snapshot both had loaded,
\* saved its own change: the task of A is not in the persisted snapshot
C8_Witness ==
  /\ script = "AtlasApp"
  /\ hist.tab = "B" /\ hist.op \in {"edit", "move", "delete"}
  /\ commits["A"] = 1 /\ commits["B"] = 1
  /\ FindIndex(app["A"].tasks.items, S_tx) # 0
  /\ storage["atlas_tasks"] = JSONstringify(app["B"].tasks)
  /\ FindIndex(storage["atlas_tasks"].v.items, S_tx) = 0

\* the ids of the tasks with the title, in collection order
IdsWithTitle(ts, title) ==
  LET sel == SelectSeq(ts, LAMBDA t : t.title = title)
  IN [i \in DOMAIN sel |-> sel[i].id]

\* C9: the index is never stale: after every handler the title index of a
\* page holds exactly the titles of the tasks in its memory, each with the
\* tasks that have it, and the id index exactly their ids, each with its
\* task.
C9_IndexNeverStale ==
  \A tab \in Tabs :
    (app[tab].phase = "running" /\ IsArray(app[tab].tasks))
    => LET ts == app[tab].tasks.items
           me == app[tab]
       IN IF script = "AtlasApp"
          THEN /\ DOMAIN me.titleIndex = {ts[i].title : i \in DOMAIN ts}
               /\ \A k \in DOMAIN me.titleIndex : me.titleIndex[k] = IdsWithTitle(ts, k)
          ELSE /\ DOMAIN me.taskById = {ts[i].id : i \in DOMAIN ts}
               /\ \A k \in DOMAIN me.taskById : ts[me.taskById[k]].id = k
               /\ DOMAIN me.taskByTitle = {TitleKey(ts[i]) : i \in DOMAIN ts}
               /\ \A k \in DOMAIN me.taskByTitle : TitleKey(ts[me.taskByTitle[k]]) = k

UniqueId(ts, id) == Cardinality({i \in DOMAIN ts : ts[i].id = id}) = 1

\* C10: resolving the id of a task whose id is unique opens that task,
\* also when the id is the title, or part of the title, of another task.
C10_ResolveById ==
  [][\A tab \in Tabs, q \in OpenQueries \cup OpenIds :
       /\ (PA_OpenTask(tab, q) /\ UniqueId(app[tab].tasks.items, q))
          => /\ PA_HasTop(app'[tab], "detail")
             /\ PA_Top(app'[tab]).taskId = q
             /\ app[tab].tasks.items[PA_Top(app'[tab]).ref].id = q
       /\ (OpenTaskById(tab, q) /\ UniqueId(app[tab].tasks.items, q))
          => /\ app'[tab].modal.kind = "detail"
             /\ app'[tab].modal.taskId = q]_vars

\* the detail dialog shows the task with id "t1" while the title of
\* another task is "t1"
C10_Witness ==
  /\ script = "ProjectAtlas"
  /\ PA_HasTop(app["A"], "detail")
  /\ PA_Top(app["A"]).taskId = S_t1
  /\ PA_Top(app["A"]).ref > 0
  /\ \E i \in DOMAIN app["A"].tasks.items :
       app["A"].tasks.items[i].id # S_t1 /\ app["A"].tasks.items[i].title = S_t1

\* the positions of the tasks whose normalized title is the normalized query
TitleMatches(ts, q) == {i \in DOMAIN ts : TitleKey(ts[i]) = Trim(ToLowerCase(q))}

FirstOf(S) == CHOOSE i \in S : \A j \in S : i <= j

\* C11: a query that is no task's id and whose lowercased, trimmed form is
\* the normalized title of one or more tasks opens, of the tasks with that
\* normalized title, the one that comes first in the collection.
C11_ResolveByTitleFirstInserted ==
  [][\A tab \in Tabs, q \in OpenQueries \cup TaskNames :
       LET ts == app[tab].tasks.items IN
       /\ (PA_OpenTask(tab, q) /\ q # <<>> /\ q \notin IdsOfTasks(ts)
             /\ TitleMatches(ts, q) # {})
          => /\ PA_HasTop(app'[tab], "detail")
             /\ PA_Top(app'[tab]).ref = FirstOf(TitleMatches(ts, q))
       /\ (ShowTaskDetail(tab, q) /\ q \notin IdsOfTasks(ts)
             /\ TitleMatches(ts, q) # {})
          => /\ app'[tab].modal.kind = "detail"
             /\ app'[tab].modal.taskId = ts[FirstOf(TitleMatches(ts, q))].id]_vars

\* the positions of the tasks whose lowercased title contains the
\* normalized query or is contained in it
FuzzyMatches(ts, q) ==
  {i \in DOMAIN ts :
     \/ Includes(ToLowerCase(ts[i].title), Trim(ToLowerCase(q)))
     \/ Includes(Trim(ToLowerCase(q)), ToLowerCase(ts[i].title))}

C13_UnresolvedShowsPlaceholder ==
  [][\A tab \in Tabs, q \in OpenQueries :
       LET ts == app[tab].tasks.items IN
       (PA_OpenTask(tab, q) /\ q # <<>> /\ q \notin IdsOfTasks(ts)
          /\ TitleMatches(ts, q) = {} /\ FuzzyMatches(ts, q) = {})
       => /\ ~app'[tab].uncaught
          /\ PA_HasTop(app'[tab], "quick")
          /\ PA_Top(app'[tab]).name = q
          /\ app'[tab].tasks = app[tab].tasks
          /\ app'[tab].projects = app[tab].projects
          /\ storage' = storage]_vars

\* the task with the id is in no collection, index or item of the tab
AbsentEverywhere(tab, id) ==
  LET me == app[tab] IN
  /\ id \notin IdsOfTasks(me.tasks.items)
  /\ storage["atlas_tasks"].k = "json"
  /\ id \notin IdsOfTasks(storage["atlas_tasks"].v.items)
  /\ IF script = "AtlasApp"
     THEN \A k \in DOMAIN me.titleIndex :
            \A i \in DOMAIN me.titleIndex[k] : me.titleIndex[k][i] # id
     ELSE /\ id \notin DOMAIN me.taskById
          /\ \A k \in DOMAIN me.taskByTitle : me.tasks.items[me.taskByTitle[k]].id # id

\* C14: after task T was deleted, T is in neither the task collection nor
\* the indexes nor the persisted snapshot, and resolving the old id of T
\* gives 'unresolved': no dialog of any other task opens.
C14_DeletedTaskUnresolved ==
  [][\A tab \in Tabs :
       (hist.op = "delete" /\ hist.tab = tab) =>
         /\ AbsentEverywhere(tab, hist.taskId)
         /\ PA_OpenTask(tab, hist.taskId)
              => (PA_HasTop(app'[tab], "quick") /\ PA_Top(app'[tab]).name = hist.taskId)
         /\ OpenTaskById(tab, hist.taskId)
              => (app'[tab].modal.kind = "none" /\ app'[tab].toast.kind = "notfound")]_vars

\* C15: a delete removes a task only after the user has confirmed it in a
\* second step; when the user declines, nothing changes: tasks, indexes
\* and the persisted snapshot are as before.
C15_DeleteNeedsConfirmation ==
  [][\A tab \in Tabs :
       /\ (commits'[tab] = commits[tab] + 1 /\ hist'.op = "delete") => hist'.asked
       /\ (hist' # hist /\ hist'.op = "declined" /\ hist'.tab = tab)
          => (app' = app /\ storage' = storage /\ ping' = ping)]_vars

\* the submitted title is empty once it is trimmed
NoTitle(title) == Trim(title) = <<>>

StoreUntouched(tab) == app'[tab].tasks = app[tab].tasks /\ storage' = storage

\* C16: the create and edit forms validate the title before they commit: a
\* submit whose trimmed title is empty leaves the tasks in memory and the
\* persisted snapshot as they were, so no task of a page has an empty
\* title after a create or an edit.
C16_EmptyTitleRejected ==
  [][\A tab \in Tabs, title \in FormTitles, p \in FormProjects, q \in FormPriorities :
       NoTitle(title) =>
         /\ (\E id \in NewIds, tick \in Ticks : SubmitAddTask(tab, id, title, p, q, tick))
              => StoreUntouched(tab)
         /\ (\E s \in Statuses, tick \in Ticks : SubmitEdit(tab, title, p, s, q, tick))
              => StoreUntouched(tab)
         /\ (\E id \in NewIds : PA_SubmitAdd(tab, id, title, p, q))
              => StoreUntouched(tab)
         /\ (\E s \in Statuses : PA_SubmitEdit(tab, title, p, s, q))
              => StoreUntouched(tab)]_vars

\* C17: every mutation of a task (create, edit submit, drop on a column,
\* move through the move dialog) sets the task's updatedAt to the time of
\* the mutation.
C17_MutationSetsUpdatedAt ==
  [][\A tab \in Tabs :
       (Saves(tab) /\ hist'.op \in {"add", "edit", "move", "drop"})
       => LET ts == app'[tab].tasks.items
          IN /\ FindIndex(ts, hist'.taskId) # 0
             /\ ts[FindIndex(ts, hist'.taskId)].updatedAt = Now]_vars

\* C18: the status a drop, a move, an add or an edit stores is one of the
\* six statuses of the board, and a task whose status is none of them has
\* no card in any column of the board.
C18_StatusEnum ==
  \A tab \in Tabs :
    (app[tab].phase = "running" /\ IsArray(app[tab].tasks)) =>
      LET ts == app[tab].tasks.items IN
      /\ (hist.tab = tab /\ hist.op \in {"add", "edit", "move", "drop"})
         => (hist.status \in Statuses /\ StatusIn(ts, hist.taskId) = hist.status)
      /\ \A i \in DOMAIN ts :
           ts[i].status \notin Statuses
           => \A s \in Statuses : ~OnBoard(app[tab], ts[i].id, s)

\* the ids of the tasks that have a card on the board
BoardIds(me) == {me.board[s][i].taskId : <<s, i>> \in UNION {{s} \X DOMAIN me.board[s] : s \in Statuses}}

\* the filter state of a page: project P and priority Q ('all': no filter)
FilterP(me) ==
  IF script = "AtlasApp" THEN me.currentFilter
  ELSE IF me.project = NoParam THEN "all" ELSE me.project
FilterQ(me) == IF script = "AtlasApp" THEN me.currentPriorityFilter ELSE "all"

\* the ids of the tasks the filter state lets through
MatchingIds(me) ==
  {me.tasks.items[i].id : i \in
     {j \in DOMAIN me.tasks.items :
        /\ (FilterP(me) = "all" \/ me.tasks.items[j].project = FilterP(me))
        /\ (FilterQ(me) = "all" \/ me.tasks.items[j].priority = FilterQ(me))}}

\* a step that renders the board of tab
RenderStep(tab) ==
  \/ FilterStep(tab)
  \/ InitKanbanTimer(tab) /\ IsArray(app[tab].tasks)
  \/ \E project \in UrlProjects : PA_Open(tab, project)
  \/ /\ Saves(tab)
     /\ \/ hist'.op \in {"add", "edit", "delete"}
        \/ hist'.op = "drop" /\ script = "ProjectAtlas"

\* C19: for every filter state (project P, priority Q) the tasks rendered
\* on the board are exactly the tasks t with (P = 'all' or t.project = P)
\* and (Q = 'all' or t.priority = Q): none is missing, none is added.
C19_RenderedSetIsFilteredSet ==
  [][\A tab \in Tabs :
       RenderStep(tab) => BoardIds(app'[tab]) = MatchingIds(app'[tab])]_vars

\* the project filter is 'kitchen': the kitchen task has a card, the
\* bathroom task of the collection has none
C19_Witness ==
  /\ script = "AtlasApp"
  /\ app["A"].currentFilter = "kitchen" /\ app["A"].currentPriorityFilter = "all"
  /\ \E i \in DOMAIN app["A"].tasks.items :
       /\ app["A"].tasks.items[i].project = "kitchen"
       /\ app["A"].tasks.items[i].id \in BoardIds(app["A"])
  /\ \E i \in DOMAIN app["A"].tasks.items :
       /\ app["A"].tasks.items[i].project # "kitchen"
       /\ app["A"].tasks.items[i].id \notin BoardIds(app["A"])

\* C20: a change of the project or priority filter never mutates the
\* Store: tasks, projects, events and documents, the index and the
\* persisted snapshot are after the change what they were before it.
C20_FilterLeavesStore ==
  [][\A tab \in Tabs :
       FilterStep(tab) =>
         /\ \A k \in Keys : Collection(app'[tab], k) = Collection(app[tab], k)
         /\ app'[tab].titleIndex = app[tab].titleIndex
         /\ storage' = storage /\ ping' = ping /\ pending' = pending]_vars

\* both filters are set and hide a task that memory and snapshot still hold
C20_Witness ==
  /\ script = "AtlasApp"
  /\ app["A"].currentFilter = "kitchen" /\ app["A"].currentPriorityFilter = "high"
  /\ Len(app["A"].tasks.items) > Cardinality(BoardIds(app["A"]))
  /\ storage["atlas_tasks"] = JSONstringify(app["A"].tasks)

\* the tasks of status s that the filter state lets through
VisibleWith(me, s) ==
  {i \in DOMAIN me.tasks.items :
     /\ me.tasks.items[i].id \in MatchingIds(me)
     /\ me.tasks.items[i].status = s}

\* C21: after every render, filter change and status transition (drop,
\* move, edit, create, delete) the count badge of each column is the number
\* of the tasks with the column's status that pass the filters.
C21_CountsMatchVisible ==
  [][\A tab \in Tabs :
       (script = "AtlasApp" /\ (RenderStep(tab) \/ Saves(tab)))
       => \A s \in Statuses :
            app'[tab].counts[s] = Cardinality(VisibleWith(app'[tab], s))]_vars

\* the kitchen task was moved to 'done' through the move dialog while the
\* project filter hides the bathroom task: one in 'done', none in 'ready'
C21_Witness ==
  /\ script = "AtlasApp"
  /\ hist.op = "move" /\ hist.status = "done"
  /\ app["A"].currentFilter = "kitchen"
  /\ app["A"].counts["done"] = 1 /\ app["A"].counts["ready"] = 0
  /\ \E i \in DOMAIN app["A"].tasks.items : app["A"].tasks.items[i].status = "ready"

\* the task of the card the user has grabbed (AtlasApp), 0 when none
GrabbedTask(me) ==
  LET ps == {p \in UNION {{s} \X DOMAIN me.board[s] : s \in Statuses} :
               me.board[p[1]][p[2]].grabbed}
      p == CHOOSE q \in ps : TRUE
  IN IF ps = {} THEN 0 ELSE FindIndex(me.tasks.items, me.board[p[1]][p[2]].taskId)

\* C22: the card of a task with status 'planning' is dragged and dropped
\* on the column 'blocked': the task has status 'blocked', the count of
\* 'planning' is one less, the count of 'blocked' one more, the other four
\* counts are as before, and a notification names the task and 'blocked'.
\* (ProjectAtlas has no count badges; there the status and the
\* notification are required.)
C22_DragPlanningToBlocked ==
  [][\A tab \in Tabs :
       /\ LET me == app[tab]
              i == GrabbedTask(me)
          IN (script = "AtlasApp" /\ (\E tick \in Ticks : Drop(tab, "blocked", tick))
                /\ i # 0 /\ me.tasks.items[i].status = "planning")
             => /\ app'[tab].tasks.items[i].status = "blocked"
                /\ app'[tab].counts["planning"] = me.counts["planning"] - 1
                /\ app'[tab].counts["blocked"] = me.counts["blocked"] + 1
                /\ \A s \in Statuses \ {"planning", "blocked"} :
                     app'[tab].counts[s] = me.counts[s]
                /\ app'[tab].toast =
                     [kind |-> "moved", taskId |-> me.tasks.items[i].id, status |-> "blocked"]
       /\ LET me == app[tab]
          IN (script = "ProjectAtlas" /\ PA_Drop(tab) /\ me.over = "blocked"
                /\ me.transfer \in DOMAIN me.taskById
                /\ me.tasks.items[me.taskById[me.transfer]].status = "planning")
             => /\ app'[tab].tasks.items[me.taskById[me.transfer]].status = "blocked"
                /\ app'[tab].toast =
                     [kind |-> "moved", taskId |-> me.transfer, status |-> "blocked"]]_vars

\* the positions of the cards of task id on the board
CardsOf(me, id) ==
  {p \in UNION {{s} \X DOMAIN me.board[s] : s \in Statuses} :
     me.board[p[1]][p[2]].taskId = id}

\* the step creates a task with title 'Or' ("Order tile") and status
\* 'planning' in tab, and the filter of the page lets the task through
CreatesOrderTile(tab) ==
  /\ Saves(tab) /\ hist'.op = "add" /\ hist'.status = "planning"
  /\ \E i \in DOMAIN app'[tab].tasks.items :
       /\ app'[tab].tasks.items[i].id = hist'.taskId
       /\ app'[tab].tasks.items[i].title = S_Or
  /\ hist'.taskId \in MatchingIds(app'[tab])

\* the last commit of tab created the task with title 'Or', which is still
\* the only task of the page with that title, letter case aside
OrderTileCreated(tab) ==
  LET ts == app[tab].tasks.items IN
  /\ hist.op = "add" /\ hist.tab = tab
  /\ FindIndex(ts, hist.taskId) # 0
  /\ ts[FindIndex(ts, hist.taskId)].title = S_Or
  /\ TitleMatches(ts, S_Or) = {FindIndex(ts, hist.taskId)}

\* C23: creating a task with title 'Order tile' and status 'planning' adds
\* exactly one task to the collection; the board shows exactly one card
\* for it, in the column 'planning'; resolving 'Order tile' afterwards
\* opens that task.  (No other task has the title.)
C23_CreatedTaskShownAndResolved ==
  [][\A tab \in Tabs :
       /\ CreatesOrderTile(tab)
          => /\ Len(app'[tab].tasks.items) = Len(app[tab].tasks.items) + 1
             /\ UniqueId(app'[tab].tasks.items, hist'.taskId)
             /\ Cardinality(CardsOf(app'[tab], hist'.taskId)) = 1
             /\ \A p \in CardsOf(app'[tab], hist'.taskId) : p[1] = "planning"
       /\ (OrderTileCreated(tab) /\ PA_OpenTask(tab, S_Or))
          => /\ PA_HasTop(app'[tab], "detail")
             /\ PA_Top(app'[tab]).taskId = hist.taskId
             /\ PA_Top(app'[tab]).ref = FindIndex(app[tab].tasks.items, hist.taskId)
       /\ (OrderTileCreated(tab) /\ ShowTaskDetail(tab, S_Or))
          => /\ app'[tab].modal.kind = "detail"
             /\ app'[tab].modal.taskId = hist.taskId]_vars

\* the task 'Or' was created on the seeded board and then opened by its
\* title
C23_Witness ==
  /\ script = "ProjectAtlas"
  /\ OrderTileCreated("A")
  /\ PA_HasTop(app["A"], "detail")
  /\ PA_Top(app["A"]).via = S_Or
  /\ PA_Top(app["A"]).taskId = hist.taskId
  /\ OnBoard(app["A"], hist.taskId, "planning")

\* the overlays of a ProjectAtlas page that are shown (class 'show' not
\* taken away by closeModal)
ShownOverlays(me) == {i \in DOMAIN me.modals : ~me.modals[i].closing}

\* C24: at most one modal dialog is open at any time, also when a dialog is
\* opened while the removal of the one before it is still pending, and a
\* close trigger closes the dialog that is shown.
C24_AtMostOneModal ==
  [][\A tab \in Tabs :
       script = "ProjectAtlas" =>
         /\ Cardinality(ShownOverlays(app'[tab])) <= 1
         /\ (PA_CloseModal(tab) /\ ShownOverlays(app[tab]) # {})
              => ShownOverlays(app'[tab]) = {}]_vars

\* no dialog of the page is shown
NoDialog(me) ==
  IF script = "AtlasApp" THEN me.modal.kind = "none" ELSE ShownOverlays(me) = {}

\* C25: close() releases the focus trap and every listener the matching
\* open() registered (Escape key handler, backdrop click handler, focus
\* trap): whatever was opened and however it was closed, no such listener
\* is registered while no dialog is open.
C25_CloseReleasesListeners ==
  \A tab \in Tabs :
    (app[tab].phase = "running" /\ NoDialog(app[tab])) => listeners[tab] = NoListeners

\* C26: close() is idempotent: with no dialog open, or a second time right
\* after a close, it changes nothing, neither the dialogs nor the listeners
\* nor what a dialog opened afterwards is.
C26_CloseIdempotent ==
  \A tab \in ModalTabs :
    LET p == Page(tab)
        c == CloseModalPage(p)
    IN /\ CloseModalPage(c) = c
       /\ NoDialog(p.me) => c = p
       /\ \A kind \in ModalKinds :
            CreateModalPage(CloseModalPage(c), kind) = CreateModalPage(c, kind)

\* a dialog has been opened and closed; the overlay is still in the
\* document when close() is called again
C26_Witness ==
  /\ script = "ProjectAtlas"
  /\ Len(app["A"].modals) = 1 /\ app["A"].modals[1].closing
  /\ listeners["A"].esc = 1

\* C27: a click that ends a gesture in which the pointer went farther than
\* the threshold from where the button went down opens no task detail,
\* through the card's handler or the click delegate of the document.
C27_MovedClickOpensNothing ==
  [][\A tab \in Tabs, s \in Statuses, i \in 1..MaxCards, d \in ClickTravels :
       d > ClickThreshold =>
         /\ CardClick(tab, s, i, d) => app'[tab].modal = app[tab].modal
         /\ PA_CardClick(tab, s, i, d) => app'[tab].modals = app[tab].modals]_vars

\* C28: a save with emit writes every collection of the class, runs the
\* local subscribers and writes the ping item anew; the save at the end of
\* a load writes the collections and leaves the ping item alone.
C28_SaveWritesAndEmits ==
  [][\A tab \in Tabs :
       /\ Saves(tab) =>
            /\ \A k \in KeysOf(script) :
                 storage'[k] = JSONstringify(Collection(app'[tab], k))
            /\ script = "AtlasApp" => app'[tab].subscribers = app[tab].subscribers
            /\ ping' > ping
       /\ (script = "AtlasApp" /\ Open(tab) /\ app'[tab].phase = "running") =>
            /\ \A k \in KeysOf(script) :
                 storage'[k] = JSONstringify(Collection(app'[tab], k))
            /\ ping' = ping]_vars

\* C29: every notify leaves a ping item greater than the one it found, so
\* each other open tab gets a storage event from it, also when the clock
\* has not advanced since the notify before.
C29_PingIncreases ==
  [][\A tab \in Tabs, id \in OpenIds, s \in MoveStatuses, tick \in ClockTicks :
       (UpdateTaskStatusCall(tab, id, s, tick) /\ hist'.op = "move")
       => /\ ping' > ping
          /\ \A o \in OthersOpen(tab) : pending'[o] > pending[o]]_vars

\* the ids and statuses of the tasks a page holds, in the order of the list
StatusList(c) ==
  IF IsArray(c) THEN [i \in DOMAIN c.items |-> <<c.items[i].id, c.items[i].status>>]
  ELSE <<>>

WithoutAt(a, j) == SubSeq(a, 1, j - 1) \o SubSeq(a, j + 1, Len(a))

\* b is a with no status changed: the same list, a with tasks added at
\* either end, or a with one task taken out
StatusesKept(a, b) ==
  \/ b = a
  \/ \E n \in 1..2 : Len(b) = Len(a) + n
                      /\ (SubSeq(b, 1, Len(a)) = a \/ SubSeq(b, n + 1, Len(b)) = a)
  \/ \E j \in DOMAIN a : b = WithoutAt(a, j)

\* the step is a drop on a column, an edit submit or a move submit of tab
StatusStep(tab) ==
  \/ /\ commits'[tab] = commits[tab] + 1
     /\ hist'.tab = tab
     /\ \/ hist'.op \in {"move", "edit", "drop"}
        \/ script = "AtlasApp" /\ hist'.op = "rejected"
  \/ \E s \in DropColumns, tick \in Ticks : Drop(tab, s, tick)

\* C30: the status of a task changes only in a drop on a column, an edit
\* submit or a move submit: every other step of a page leaves the ids and
\* statuses of its tasks as they were (tasks may be added or deleted), and
\* a load of well-formed items gives every task the status persisted.
C30_StatusChangesOnlyByCommit ==
  [][\A tab \in Tabs :
       /\ (app[tab].phase = "running" /\ app'[tab].phase = "running"
             /\ ~Loads(tab) /\ ~StatusStep(tab))
          => StatusesKept(StatusList(app[tab].tasks), StatusList(app'[tab].tasks))
       /\ (Loads(tab) /\ storage["atlas_tasks"].k = "json"
             /\ \A k \in KeysOf(script) : storage[k].k = "json" /\ IsArray(storage[k].v)
             /\ storage["atlas_tasks"].v.items # <<>>)
          => /\ StatusList(app'[tab].tasks) = StatusList(storage["atlas_tasks"].v)
             /\ storage'["atlas_tasks"] = storage["atlas_tasks"]]_vars

C30_Witness ==
  \E tab \in Tabs :
    /\ script = "ProjectAtlas" /\ app[tab].phase = "running"
    /\ \E i \in DOMAIN app[tab].board["planning"] :
         LET c == app[tab].board["planning"][i]
         IN c.ref # Detached /\ app[tab].tasks.items[c.ref].status = "archived"

\* C31: the refresh listener (reindexTasks, then renderKanban) run twice on
\* a page leaves the title index, the cards of every column and the badges
\* that one run leaves.
C31_RefreshIdempotent ==
  \A tab \in Tabs :
    (script = "AtlasApp" /\ app[tab].phase = "running")
    => LET once == RefreshSubscriber(app[tab])
           twice == RefreshSubscriber(once)
       IN /\ twice.titleIndex = once.titleIndex
          /\ twice.board = once.board
          /\ twice.counts = once.counts

\* a rendered page whose board one run of the listener changes and fills
C31_Witness ==
  \E tab \in Tabs :
    /\ script = "AtlasApp" /\ app[tab].phase = "running" /\ app[tab].rendered
    /\ RefreshSubscriber(app[tab]).board # app[tab].board
    /\ RefreshSubscriber(app[tab]).board # EmptyBoard

\* the task ids of the cards of every column, in the order they are shown
CardPlaces(me) ==
  [s \in Statuses |-> [i \in DOMAIN me.board[s] |-> me.board[s][i].taskId]]

\* column s shows the card the user is dragging
HoldsDragged(me, s) ==
  \E i \in DOMAIN me.board[s] :
    IF script = "AtlasApp" THEN me.board[s][i].grabbed ELSE me.board[s][i].dragging

\* C32: in every step of a drag that is cancelled or released outside the
\* columns (dragstart, dragover on other columns, the pointer leaving, the
\* drop outside, dragend) every card stays at its place in its column and
\* the tasks of the page stay as they are, so the dragged card is shown
\* where it was, in the column of the task's status.
C32_CancelledDragKeepsPlace ==
  [][\A tab \in Tabs :
       DragStepWithoutColumnDrop(tab) =>
         /\ CardPlaces(app'[tab]) = CardPlaces(app[tab])
         /\ app'[tab].tasks = app[tab].tasks]_vars

\* the dragged card is shown in one column while the pointer is over
\* another
C32_Witness ==
  \E tab \in Tabs, s \in Statuses :
    /\ app[tab].phase = "running" /\ app[tab].drag = "active"
    /\ app[tab].over \in Statuses \ {s}
    /\ HoldsDragged(app[tab], s)

\* C33: the constructor of AtlasApp returns: on a loaded page the refresh
\* listener is in the subscriber set and window.atlas is the instance.
C33_ConstructorCompletes ==
  \A tab \in Tabs :
    (script = "AtlasApp" /\ app[tab].phase = "running")
    => /\ app[tab].bound
       /\ "refresh" \in app[tab].subscribers

\* C34: while tab A is the only page, between any two handlers the tasks
\* and projects items are JSON.stringify of the collections in its memory.
C34_MemoryEqualsSnapshot ==
  (app["B"].phase = "closed" /\ app["A"].phase = "running")
  => \A k \in {"atlas_tasks", "atlas_projects"} :
       storage[k] = JSONstringify(Collection(app["A"], k))

\* C35: a load of well-formed, non-empty items leaves every item as it
\* is, also when another tab has saved since the load read the items.
C35_LoadIsReadOnly ==
  [][\A tab \in Tabs :
       (FinishLoad(tab)
          /\ \A k \in Keys : storage[k].k = "json" /\ IsArray(storage[k].v)
          /\ storage["atlas_tasks"].v.items # <<>>)
       => storage' = storage]_vars

\* the storage events queued in all tabs
PendingTotal(q) == q["A"] + q["B"]

\* C36: the storage listener of a tab runs the tab's subscribers and
\* writes nothing: the items and the ping item are as before, no tab gets
\* a new storage event and the tab's own queue is one shorter, so the
\* events of one save are used up after finitely many listener runs.
C36_StorageListenerWritesNothing ==
  [][\A tab \in Tabs :
       StorageEvent(tab) =>
         /\ storage' = storage /\ ping' = ping
         /\ \A o \in Tabs : app'[o].tasks = app[o].tasks
         /\ \A o \in Tabs \ {tab} : pending'[o] = pending[o]
         /\ PendingTotal(pending') = PendingTotal(pending) - 1]_vars

\* tab A has moved a task while tab B was open, and B has handled every
\* storage event of that save
C36_Witness ==
  /\ script = "AtlasApp"
  /\ hist.op = "move" /\ hist.tab = "A" /\ "B" \in hist.open
  /\ app["B"].phase = "running"
  /\ pending["B"] = 0 /\ pending["A"] = 0

\* the ids of the tasks of project p that pass the priority filter
IdsOfProject(me, p) ==
  {me.tasks.items[j].id :
     j \in {i \in DOMAIN me.tasks.items :
              /\ me.tasks.items[i].project = p
              /\ me.currentPriorityFilter \in {"all", me.tasks.items[i].priority}}}

\* C37: the project filter set to a project of the Store shows the cards
\* of the tasks of that project and no other card (the priority filter
\* permitting), also for a project the user has created.
C37_ProjectFilterShowsProject ==
  [][\A tab \in Tabs, value \in StoreFilterValues \ {"All Projects"} :
       (FilterByProject(tab, value) /\ value \in ProjectIds(app[tab]))
       => BoardIds(app'[tab]) = IdsOfProject(app[tab], value)]_vars

\* the columns that show a card of task id
ColumnsOf(me, id) ==
  {s \in Statuses : \E i \in DOMAIN me.board[s] : me.board[s][i].taskId = id}

\* C38: after a committed status change (move form, edit form, drop) the
\* card of the task, when the board shows it, is in the column of the new
\* status and in no other, and every column of AtlasApp shows as many
\* cards as its badge says.
C38_CardFollowsStatus ==
  [][\A tab \in Tabs :
       (Saves(tab) /\ hist'.op \in {"move", "edit", "drop"}
          /\ hist'.status \in Statuses
          /\ ColumnsOf(app'[tab], hist'.taskId) # {})
       => /\ ColumnsOf(app'[tab], hist'.taskId) = {hist'.status}
          /\ script = "AtlasApp" =>
               \A s \in Statuses : Len(app'[tab].board[s]) = app'[tab].counts[s]]_vars

\* C39: openTaskByIdOrName of ProjectAtlas opens no task for a name of
\* spaces, and opens a task whose title is empty only for its id.
C39_FuzzyNeverMatchesEmpty ==
  [][\A tab \in Tabs :
       /\ \A q \in BlankQueries :
            PA_OpenTask(tab, q) => ~PA_HasTop(app'[tab], "detail")
       /\ \A q \in OpenQueries \ {<<>>} :
            (PA_OpenTask(tab, q) /\ PA_HasTop(app'[tab], "detail")
               /\ app'[tab].tasks.items[PA_Top(app'[tab]).ref].title = <<>>)
            => PA_Top(app'[tab]).taskId = q]_vars

\* C40: the drag controller of ProjectAtlas has two states, idle and
\* dragging: it enters dragging only by a dragstart on a task card, every
\* drop and every dragend leaves it idle, and on entering dragging it has
\* recorded the id of the dragged task and the status the card started from.
C40_DragControllerMachine ==
  [][script = "ProjectAtlas" =>
       \A tab \in Tabs :
         /\ (~app[tab].dragState.isDragging /\ app'[tab].dragState.isDragging)
              => \E s \in Statuses, i \in 1..MaxCards : PA_DragStart(tab, s, i)
         /\ (PA_Drop(tab) \/ PA_DragEnd(tab)) => ~app'[tab].dragState.isDragging
         /\ \A s \in Statuses, i \in 1..MaxCards :
              PA_DragStart(tab, s, i)
              => /\ app'[tab].transfer = app[tab].board[s][i].taskId
                 /\ "originStatus" \in DOMAIN app'[tab].dragState
                 /\ app'[tab].dragState.originStatus = s]_vars

====
